---------------------------- MODULE Spec2Model ----------------------------
(***************************************************************************)
(* Resume parsing and ATS scoring of the placement backend (src/main.py).  *)
(*                                                                         *)
(* Texts are TLA+ strings over ASCII; a character is a string of length 1. *)
(* The check marks of the feedback lines are not ASCII and are written     *)
(*   "[+] " for the check mark, "[x] " for the cross, "[!] " for the       *)
(*   warning sign.                                                         *)
(***************************************************************************)
EXTENDS Integers, Sequences, FiniteSets, TLC

VARIABLES
    text,         \* the extracted text handed to parse_resume
    parsed_data,  \* the section map returned by parse_resume
    ats_score,    \* the report returned by calculate_ats_score
    pc,           \* position in the pipeline
    request,      \* the HTTP request a handler serves
    response,     \* the handler's response
    calls,        \* how often the request invoked parse_resume / calculate_ats_score
    db,           \* the collections of the document store (src/database.py)
    locals        \* the local variables of the handlers that are under way

vars == <<text, parsed_data, ats_score, pc, request, response, calls, db, locals>>

-----------------------------------------------------------------------------
(* Python str operations *)

Char(s, i) == SubSeq(s, i, i)

CharsOf(s) == {Char(s, i) : i \in 1..Len(s)}

Min(S) == CHOOSE m \in S : \A o \in S : m <= o

MinInt(a, b) == IF a <= b THEN a ELSE b

\* keyword in line
Contains(s, k) ==
    \E i \in 1..(Len(s) - Len(k) + 1) : SubSeq(s, i, i + Len(k) - 1) = k

\* s.startswith(p)
StartsWith(s, p) == Len(s) >= Len(p) /\ SubSeq(s, 1, Len(p)) = p

\* s.endswith(p)
EndsWith(s, p) == Len(s) >= Len(p) /\ SubSeq(s, Len(s) - Len(p) + 1, Len(s)) = p

UpperLetters == "ABCDEFGHIJKLMNOPQRSTUVWXYZ"
LowerLetters == "abcdefghijklmnopqrstuvwxyz"
DigitChars == CharsOf("0123456789")
UpperSet == CharsOf(UpperLetters)
LowerSet == CharsOf(LowerLetters)

ToLowerMap == [c \in UpperSet |->
                 Char(LowerLetters, CHOOSE i \in 1..26 : Char(UpperLetters, i) = c)]

LowerChar(c) == IF c \in UpperSet THEN ToLowerMap[c] ELSE c

\* s.lower(), on the characters a..b of s
RECURSIVE LowerRange(_, _, _)
LowerRange(s, a, b) ==
    IF a > b THEN ""
    ELSE IF a = b THEN LowerChar(Char(s, a))
    ELSE LET m == (a + b) \div 2
         IN  LowerRange(s, a, m) \o LowerRange(s, m + 1, b)

Lower(s) == LowerRange(s, 1, Len(s))

\* the ASCII characters str.strip() removes and \s matches: space, tab, line
\* feed, carriage return, form feed, and the control characters 0x0B (vertical
\* tab), 0x1C, 0x1D, 0x1E and 0x1F, which stand in the strings of the second line
Whitespace ==
    {" ", "\t", "\n", "\r", "\f",
     "", "", "", "", ""}

\* s.strip()
Strip(s) ==
    LET keep == {i \in 1..Len(s) : Char(s, i) \notin Whitespace}
    IN  IF keep = {} THEN ""
        ELSE SubSeq(s, Min(keep), CHOOSE m \in keep : \A o \in keep : o <= m)

\* s.split(sep) for a separator of one character
Split(s, sep) ==
    LET cuts == {i \in 1..Len(s) : Char(s, i) = sep}
        nth(j) == IF j = 0 THEN 0
                  ELSE IF j > Cardinality(cuts) THEN Len(s) + 1
                  ELSE CHOOSE p \in cuts : Cardinality({q \in cuts : q < p}) = j - 1
    IN  [j \in 1..(Cardinality(cuts) + 1) |-> SubSeq(s, nth(j - 1) + 1, nth(j) - 1)]
            \o <<>>

\* sep.join(parts)
RECURSIVE JoinFrom(_, _, _, _)
JoinFrom(parts, sep, a, b) ==
    IF a > b THEN ""
    ELSE IF a = b THEN parts[a]
    ELSE LET m == (a + b) \div 2
         IN  JoinFrom(parts, sep, a, m) \o sep \o JoinFrom(parts, sep, m + 1, b)

Join(parts, sep) == JoinFrom(parts, sep, 1, Len(parts))

-----------------------------------------------------------------------------
(* Python re: a pattern is a sequence of items, each a greedy repetition   *)
(* {lo,hi} of one character class, or the assertion \b; matching           *)
(* backtracks from the longest repetition to the shortest, as re does.     *)

Class(chars, lo, hi) == [kind |-> "class", chars |-> chars, lo |-> lo, hi |-> hi]
WordBoundary == [kind |-> "wordb"]

\* {lo,}: a repetition without an upper limit has hi < 0
AtLeast(chars, lo) == Class(chars, lo, -1)

WordChars == UpperSet \cup LowerSet \cup DigitChars \cup {"_"}

IsWordAt(s, i) == i >= 1 /\ i <= Len(s) /\ Char(s, i) \in WordChars

\* \b before the character at pos
AtWordBoundary(s, pos) == IsWordAt(s, pos - 1) # IsWordAt(s, pos)

\* the least index in a..b whose character is not in chars, 0 when there is none
RECURSIVE FirstOutside(_, _, _, _)
FirstOutside(s, chars, a, b) ==
    IF a > b THEN 0
    ELSE IF a = b THEN (IF Char(s, a) \notin chars THEN a ELSE 0)
    ELSE LET m == (a + b) \div 2
             l == FirstOutside(s, chars, a, m)
         IN  IF l # 0 THEN l ELSE FirstOutside(s, chars, m + 1, b)

\* how many characters from pos on lie in chars, at most hi (any number if hi < 0)
RunLength(s, pos, chars, hi) ==
    LET limit == IF hi < 0 THEN Len(s) ELSE MinInt(Len(s), pos + hi - 1)
        stop  == FirstOutside(s, chars, pos, limit)
    IN  IF stop = 0 THEN (IF limit < pos THEN 0 ELSE limit - pos + 1) ELSE stop - pos

\* the position after the match of items k.. from pos, 0 when there is none;
\* TryCounts gives the match for the longest repetition count in a..b of item k
\* that lets the rest of the pattern match (greedy, backtracking to shorter runs)
RECURSIVE MatchFrom(_, _, _, _), TryCounts(_, _, _, _, _, _)
MatchFrom(pat, s, pos, k) ==
    CASE k > Len(pat) -> pos
      [] k <= Len(pat) /\ pat[k].kind = "wordb" /\ AtWordBoundary(s, pos) ->
             MatchFrom(pat, s, pos, k + 1)
      [] k <= Len(pat) /\ pat[k].kind = "wordb" /\ ~AtWordBoundary(s, pos) -> 0
      [] k <= Len(pat) /\ pat[k].kind # "wordb" ->
             TryCounts(pat, s, pos, k, pat[k].lo,
                       RunLength(s, pos, pat[k].chars, pat[k].hi))

TryCounts(pat, s, pos, k, a, b) ==
    CASE a > b -> 0
      [] a = b -> MatchFrom(pat, s, pos + a, k + 1)
      [] a < b -> LET m == (a + b) \div 2
                      r == TryCounts(pat, s, pos, k, m + 1, b)
                  IN  IF r # 0 THEN r ELSE TryCounts(pat, s, pos, k, a, m)

\* the least start in a..b from which pat matches, 0 when there is none
RECURSIVE FirstStart(_, _, _, _)
FirstStart(pat, s, a, b) ==
    IF a > b THEN 0
    ELSE IF a = b THEN (IF MatchFrom(pat, s, a, 1) # 0 THEN a ELSE 0)
    ELSE LET m == (a + b) \div 2
             l == FirstStart(pat, s, a, m)
         IN  IF l # 0 THEN l ELSE FirstStart(pat, s, m + 1, b)

\* re.findall(pat, s)[:1]: the leftmost match, as a list of at most one string
FindFirst(pat, s) ==
    LET start == FirstStart(pat, s, 1, Len(s))
    IN  IF start = 0 THEN <<>>
        ELSE <<SubSeq(s, start, MatchFrom(pat, s, start, 1) - 1)>>

\* bool(re.search(r"\d+[%+]?", item))
HasMetric(item) == \E i \in 1..Len(item) : Char(item, i) \in DigitChars

-----------------------------------------------------------------------------
(* parse_resume *)

NoSection == "None"

\* the keys of parsed_data, in the order of the dict literal
SectionKeys ==
    << "personal_info", "education", "experience", "projects", "skills",
       "certifications", "research", "thesis", "startups", "achievements",
       "languages", "interests", "other_sections" >>

KeySet == {SectionKeys[i] : i \in 1..Len(SectionKeys)}

\* section_keywords, in the order of the dict literal
section_keywords ==
    << [key |-> "personal_info",
        keywords |-> <<"name", "contact", "email", "phone", "address", "profile">>],
       [key |-> "education",
        keywords |-> <<"education", "academic", "qualification", "degree",
                       "university", "college">>],
       [key |-> "experience",
        keywords |-> <<"experience", "employment", "work history",
                       "professional experience">>],
       [key |-> "projects",
        keywords |-> <<"projects", "personal projects", "academic projects">>],
       [key |-> "skills",
        keywords |-> <<"skills", "technical skills", "competencies", "expertise">>],
       [key |-> "certifications",
        keywords |-> <<"certifications", "certificates", "licenses">>],
       [key |-> "research",
        keywords |-> <<"research", "research papers", "publications">>],
       [key |-> "thesis", keywords |-> <<"thesis", "dissertation">>],
       [key |-> "startups",
        keywords |-> <<"startup", "entrepreneurship", "venture">>],
       [key |-> "achievements",
        keywords |-> <<"achievements", "awards", "honors", "accomplishments">>],
       [key |-> "languages", keywords |-> <<"languages", "language proficiency">>],
       [key |-> "interests", keywords |-> <<"interests", "hobbies">>] >>

\* the length below which a line can be a header
HeaderMaxLen == 50

email_pattern ==
    << WordBoundary,
       AtLeast(UpperSet \cup LowerSet \cup DigitChars \cup CharsOf("._%+-"), 1),
       Class({"@"}, 1, 1),
       AtLeast(UpperSet \cup LowerSet \cup DigitChars \cup CharsOf(".-"), 1),
       Class({"."}, 1, 1),
       AtLeast(UpperSet \cup LowerSet \cup {"|"}, 2),
       WordBoundary >>

PhoneSeparators == {"-", "."} \cup Whitespace

\* phone_pattern with a last group of four or more digits, seven in all
phone_pattern_seven_digits ==
    << Class({"+"}, 0, 1),
       Class({"("}, 0, 1), Class(DigitChars, 1, 4), Class({")"}, 0, 1),
       Class(PhoneSeparators, 0, 1),
       Class({"("}, 0, 1), Class(DigitChars, 1, 4), Class({")"}, 0, 1),
       Class(PhoneSeparators, 0, 1),
       Class(DigitChars, 1, 4),
       Class(PhoneSeparators, 0, 1),
       Class(DigitChars, 4, 9) >>

phone_pattern ==
    << Class({"+"}, 0, 1),
       Class({"("}, 0, 1), Class(DigitChars, 1, 4), Class({")"}, 0, 1),
       Class(PhoneSeparators, 0, 1),
       Class({"("}, 0, 1), Class(DigitChars, 1, 4), Class({")"}, 0, 1),
       Class(PhoneSeparators, 0, 1),
       Class(DigitChars, 1, 4),
       Class(PhoneSeparators, 0, 1),
       Class(DigitChars, 1, 9) >>

\* KeywordHit with the keyword compared to the whole line
KeywordHitWholeLine(e, line_lower, line) ==
    \E j \in 1..Len(e.keywords) :
        line_lower = e.keywords[j] /\ Len(line) < HeaderMaxLen

\* the header test of the scan: does a keyword of entry e occur in the line
KeywordHit(e, line_lower, line) ==
    \E j \in 1..Len(e.keywords) :
        Contains(line_lower, e.keywords[j]) /\ Len(line) < HeaderMaxLen

\* HeaderKey with the last key that has a keyword in the line
HeaderKeyLast(line) ==
    LET line_lower == Lower(line)
        hits == {i \in 1..Len(section_keywords) :
                    KeywordHit(section_keywords[i], line_lower, line)}
    IN  IF hits = {} THEN NoSection
        ELSE section_keywords[CHOOSE i \in hits : \A j \in hits : j <= i].key

\* the section a stripped line is a header of (the first key with a keyword
\* in the line), NoSection when it is no header
HeaderKey(line) ==
    LET line_lower == Lower(line)
        hits == {i \in 1..Len(section_keywords) :
                    KeywordHit(section_keywords[i], line_lower, line)}
    IN  IF hits = {} THEN NoSection ELSE section_keywords[Min(hits)].key

\* Flush with the section's list assigned instead of extended
FlushReplacing(st) ==
    IF st.current_section # NoSection /\ st.current_content # <<>>
    THEN [st.parsed EXCEPT ![st.current_section] = st.current_content]
    ELSE st.parsed

\* Flush with the buffer put in front of the section's list
FlushPrepending(st) ==
    IF st.current_section # NoSection /\ st.current_content # <<>>
    THEN [st.parsed EXCEPT ![st.current_section] = st.current_content \o @]
    ELSE st.parsed

\* parsed_data[current_section].extend(current_content), under its guard
Flush(st) ==
    IF st.current_section # NoSection /\ st.current_content # <<>>
    THEN [st.parsed EXCEPT ![st.current_section] = @ \o st.current_content]
    ELSE st.parsed

\* ScanLine with the header line kept as the first content line of its section
ScanLineKeepingHeader(st, raw) ==
    LET line == Strip(raw)
        key  == HeaderKey(line)
    IN  IF line = "" THEN st
        ELSE IF key # NoSection
        THEN [parsed |-> Flush(st), current_section |-> key, current_content |-> <<line>>]
        ELSE IF st.current_section # NoSection
        THEN [st EXCEPT !.current_content = Append(@, line)]
        ELSE [st EXCEPT !.parsed["personal_info"] = Append(@, line)]

\* ScanLine with the lines before the first header put in other_sections
ScanLineUnsectionedToOther(st, raw) ==
    LET line == Strip(raw)
        key  == HeaderKey(line)
    IN  IF line = "" THEN st
        ELSE IF key # NoSection
        THEN [parsed |-> Flush(st), current_section |-> key, current_content |-> <<>>]
        ELSE IF st.current_section # NoSection
        THEN [st EXCEPT !.current_content = Append(@, line)]
        ELSE [st EXCEPT !.parsed["other_sections"] = Append(@, line)]

\* one iteration of "for line in lines"
ScanLine(st, raw) ==
    LET line == Strip(raw)
        key  == HeaderKey(line)
    IN  IF line = "" THEN st
        ELSE IF key # NoSection
        THEN [parsed |-> Flush(st), current_section |-> key, current_content |-> <<>>]
        ELSE IF st.current_section # NoSection
        THEN [st EXCEPT !.current_content = Append(@, line)]
        ELSE [st EXCEPT !.parsed["personal_info"] = Append(@, line)]

\* the loop over lines[a..b]: the second half is run on the outcome of the
\* first, which is st itself when the first half holds blank lines only
RECURSIVE ScanFrom(_, _, _, _)
ScanFrom(st, lines, a, b) ==
    IF a > b THEN st
    ELSE IF a = b THEN ScanLine(st, lines[a])
    ELSE LET m == (a + b) \div 2
             half == ScanFrom(st, lines, a, m)
         IN  IF st = half THEN ScanFrom(st, lines, m + 1, b)
             ELSE ScanFrom(half, lines, m + 1, b)

\* ContactEntries with the Phone entry put before the Email entry
ContactEntriesPhoneFirst(all_text) ==
    LET emails == FindFirst(email_pattern, all_text)
        phones == FindFirst(phone_pattern, all_text)
    IN  (IF phones # <<>> THEN <<"Phone: " \o phones[1]>> ELSE <<>>)
        \o (IF emails # <<>> THEN <<"Email: " \o emails[1]>> ELSE <<>>)

\* the "Email: ..." and "Phone: ..." entries put in front of personal_info
ContactEntries(all_text) ==
    LET emails == FindFirst(email_pattern, all_text)
        phones == FindFirst(phone_pattern, all_text)
    IN  (IF emails # <<>> THEN <<"Email: " \o emails[1]>> ELSE <<>>)
        \o (IF phones # <<>> THEN <<"Phone: " \o phones[1]>> ELSE <<>>)

\* DropEmpty without the filter
KeepEmpty(pd) == pd

\* {k: v for k, v in parsed_data.items() if v}
DropEmpty(pd) == [k \in {x \in DOMAIN pd : pd[x] # <<>>} |-> pd[k]]

parse_resume(t) ==
    LET lines == Split(t, "\n")
        start == [parsed |-> [k \in KeySet |->
                                IF k = "personal_info"
                                THEN ContactEntries(Join(lines, " ")) ELSE <<>>],
                  current_section |-> NoSection,
                  current_content |-> <<>>]
        final == ScanFrom(start, lines, 1, Len(lines))
    IN  DropEmpty(Flush(final))

-----------------------------------------------------------------------------
(* calculate_ats_score *)

max_score == 100

\* parsed_data.get(key, [])
Get(pd, key) == IF key \in DOMAIN pd THEN pd[key] ELSE <<>>

\* any(word in item.lower() for item in items)
AnyMentions(items, word) == \E i \in 1..Len(items) : Contains(Lower(items[i]), word)

has_email(pd) == AnyMentions(Get(pd, "personal_info"), "email")
has_phone(pd) == AnyMentions(Get(pd, "personal_info"), "phone")

contact_score(pd) ==
    (IF has_email(pd) THEN 5 ELSE 0) + (IF has_phone(pd) THEN 5 ELSE 0)

education_score(pd) ==
    LET education_items == Get(pd, "education")
    IN  IF education_items # <<>> THEN MinInt(15, Len(education_items) * 5) ELSE 0

\* any(bool(re.search(r"\d+[%+]?", item)) for item in experience_items)
has_metrics(experience_items) ==
    \E i \in 1..Len(experience_items) : HasMetric(experience_items[i])

\* experience_score with the points per line deducted from the cap
experience_score_deducting(pd) ==
    LET experience_items == Get(pd, "experience")
    IN  IF experience_items # <<>>
        THEN (IF Len(experience_items) * 5 >= 25 THEN 0 ELSE 25 - Len(experience_items) * 5)
             + (IF has_metrics(experience_items) THEN 5 ELSE 0)
        ELSE 0

\* experience_score without the bonus for a line with a number
experience_score_without_metrics(pd) ==
    LET experience_items == Get(pd, "experience")
    IN  IF experience_items # <<>> THEN MinInt(25, Len(experience_items) * 5) ELSE 0

\* experience_score as the recommendations read it (before the cap of the breakdown)
experience_score(pd) ==
    LET experience_items == Get(pd, "experience")
    IN  IF experience_items # <<>>
        THEN MinInt(25, Len(experience_items) * 5)
             + (IF has_metrics(experience_items) THEN 5 ELSE 0)
        ELSE 0

\* the Work Experience entry without its cap
work_experience_uncapped(pd) == experience_score(pd)

\* min(experience_score, 25), the Work Experience entry of the breakdown
work_experience_score(pd) == MinInt(experience_score(pd), 25)

\* len(item.split(","))
TokenCount(item) == Len(Split(item, ","))

\* sum(len(item.split(",")) for item in skills_items)
RECURSIVE SkillsCountFrom(_, _)
SkillsCountFrom(skills_items, i) ==
    IF i > Len(skills_items) THEN 0
    ELSE TokenCount(skills_items[i]) + SkillsCountFrom(skills_items, i + 1)

skills_count(pd) == SkillsCountFrom(Get(pd, "skills"), 1)

\* skills_score counting the lines instead of the comma-separated tokens
skills_score_by_lines(pd) ==
    IF Get(pd, "skills") # <<>> THEN MinInt(15, Len(Get(pd, "skills"))) ELSE 0

skills_score(pd) ==
    IF Get(pd, "skills") # <<>> THEN MinInt(15, skills_count(pd)) ELSE 0

projects_score(pd) ==
    LET projects_items == Get(pd, "projects")
    IN  IF projects_items # <<>> THEN MinInt(10, Len(projects_items) * 3) ELSE 0

cert_score(pd) ==
    LET cert_items == Get(pd, "certifications")
    IN  IF cert_items # <<>> THEN MinInt(8, Len(cert_items) * 2) ELSE 0

research_score(pd) ==
    LET research_items == Get(pd, "research")
    IN  IF research_items # <<>> THEN MinInt(7, Len(research_items) * 3) ELSE 0

\* len([k for k, v in parsed_data.items() if v])
section_count(pd) == Cardinality({k \in DOMAIN pd : pd[k] # <<>>})

action_verbs ==
    << "developed", "designed", "implemented", "managed", "led", "created",
       "built", "improved", "optimized", "achieved", "delivered", "launched" >>

\* sum(1 for verb in action_verbs if verb in text_lower)
found_verbs(full_text) ==
    LET text_lower == Lower(full_text)
    IN  Cardinality({i \in 1..Len(action_verbs) : Contains(text_lower, action_verbs[i])})

\* formatting_score granting the five points from four action verbs on
formatting_score_from_four_verbs(pd, full_text) ==
    (IF section_count(pd) >= 4 THEN 5 ELSE 0)
    + (IF found_verbs(full_text) >= 4 THEN 5
       ELSE IF found_verbs(full_text) >= 2 THEN 3 ELSE 0)

formatting_score(pd, full_text) ==
    (IF section_count(pd) >= 4 THEN 5 ELSE 0)
    + (IF found_verbs(full_text) >= 5 THEN 5
       ELSE IF found_verbs(full_text) >= 2 THEN 3 ELSE 0)

\* round((score / max_score) * 100, 1), in tenths of a percent.  The float
\* expression yields score exactly for every integer score in 0..100, so the
\* rounding to one decimal is the rounding of score * 1000 / max_score.
Percentage(score) == (score * 1000 * 2 + max_score) \div (2 * max_score)

\* Rating with > for >=
RatingStrict(percentage) ==
    IF percentage > 900 THEN [rating |-> "Excellent", rating_color |-> "green"]
    ELSE IF percentage > 750 THEN [rating |-> "Very Good", rating_color |-> "blue"]
    ELSE IF percentage > 600 THEN [rating |-> "Good", rating_color |-> "yellow"]
    ELSE IF percentage > 400 THEN [rating |-> "Fair", rating_color |-> "orange"]
    ELSE [rating |-> "Needs Improvement", rating_color |-> "red"]

\* the if / elif chain over percentage (thresholds in tenths of a percent)
Rating(percentage) ==
    IF percentage >= 900 THEN [rating |-> "Excellent", rating_color |-> "green"]
    ELSE IF percentage >= 750 THEN [rating |-> "Very Good", rating_color |-> "blue"]
    ELSE IF percentage >= 600 THEN [rating |-> "Good", rating_color |-> "yellow"]
    ELSE IF percentage >= 400 THEN [rating |-> "Fair", rating_color |-> "orange"]
    ELSE [rating |-> "Needs Improvement", rating_color |-> "red"]

Entry(sc, mx) == [score |-> sc, max |-> mx]

Criteria ==
    << "Contact Information", "Education", "Work Experience", "Skills", "Projects",
       "Certifications", "Research & Publications", "Formatting & Keywords" >>

scoring_breakdown(pd, full_text) ==
    ("Contact Information" :> Entry(contact_score(pd), 10))
    @@ ("Education" :> Entry(education_score(pd), 15))
    @@ ("Work Experience" :> Entry(work_experience_score(pd), 25))
    @@ ("Skills" :> Entry(skills_score(pd), 15))
    @@ ("Projects" :> Entry(projects_score(pd), 10))
    @@ ("Certifications" :> Entry(cert_score(pd), 8))
    @@ ("Research & Publications" :> Entry(research_score(pd), 7))
    @@ ("Formatting & Keywords" :> Entry(formatting_score(pd, full_text), 10))

\* score, accumulated by the "score += ..." statements
total_score(pd, full_text) ==
    contact_score(pd) + education_score(pd) + work_experience_score(pd)
    + skills_score(pd) + projects_score(pd) + cert_score(pd) + research_score(pd)
    + formatting_score(pd, full_text)

Num(items) == ToString(Len(items))

feedback(pd, full_text) ==
    <<IF has_email(pd) THEN "[+] Email address found" ELSE "[x] Missing email address">>
    \o <<IF has_phone(pd) THEN "[+] Phone number found" ELSE "[x] Missing phone number">>
    \o <<IF Get(pd, "education") # <<>>
         THEN "[+] Education section found with " \o Num(Get(pd, "education")) \o " entries"
         ELSE "[x] No education section found">>
    \o (IF Get(pd, "experience") # <<>>
        THEN <<"[+] Work experience section found with "
                \o Num(Get(pd, "experience")) \o " entries">>
             \o (IF has_metrics(Get(pd, "experience"))
                 THEN <<"[+] Quantifiable achievements found (numbers/metrics)">>
                 ELSE <<>>)
        ELSE <<"[x] No work experience section found">>)
    \o <<IF Get(pd, "skills") # <<>>
         THEN "[+] Skills section found with approximately "
              \o ToString(skills_count(pd)) \o " skills"
         ELSE "[x] No skills section found">>
    \o <<IF Get(pd, "projects") # <<>>
         THEN "[+] Projects section found with " \o Num(Get(pd, "projects")) \o " projects"
         ELSE "[!] No projects section found">>
    \o <<IF Get(pd, "certifications") # <<>>
         THEN "[+] Certifications found: " \o Num(Get(pd, "certifications"))
              \o " certificates"
         ELSE "[!] No certifications listed">>
    \o (IF Get(pd, "research") # <<>>
        THEN <<"[+] Research/Publications found: " \o Num(Get(pd, "research"))
                \o " papers">>
        ELSE <<>>)
    \o (IF section_count(pd) >= 4
        THEN <<"[+] Well-structured with multiple sections">> ELSE <<>>)
    \o (IF found_verbs(full_text) >= 5
        THEN <<"[+] Strong action verbs used ("
                \o ToString(found_verbs(full_text)) \o " found)">>
        ELSE IF found_verbs(full_text) >= 2
        THEN <<"[!] Some action verbs used ("
                \o ToString(found_verbs(full_text)) \o " found)">>
        ELSE <<>>)

\* recommendations without the positive message for an empty list
recommendations_without_fallback(pd, full_text) ==
    (IF contact_score(pd) < 10
     THEN <<"Add complete contact information (email and phone)">> ELSE <<>>)
    \o (IF education_score(pd) < 10
        THEN <<"Add or expand your education section">> ELSE <<>>)
    \o (IF experience_score(pd) < 15
        THEN <<"Add more work experience details with quantifiable achievements">>
        ELSE <<>>)
    \o (IF skills_score(pd) < 10
        THEN <<"Expand your skills section with relevant technical and soft skills">>
        ELSE <<>>)
    \o (IF projects_score(pd) < 5
        THEN <<"Include relevant projects to showcase your abilities">> ELSE <<>>)
    \o (IF cert_score(pd) < 4
        THEN <<"Add professional certifications if available">> ELSE <<>>)
    \o (IF formatting_score(pd, full_text) < 7
        THEN <<"Use more action verbs and improve resume structure">> ELSE <<>>)

recommendations(pd, full_text) ==
    LET recs ==
          (IF contact_score(pd) < 10
           THEN <<"Add complete contact information (email and phone)">> ELSE <<>>)
          \o (IF education_score(pd) < 10
              THEN <<"Add or expand your education section">> ELSE <<>>)
          \o (IF experience_score(pd) < 15
              THEN <<"Add more work experience details with quantifiable achievements">>
              ELSE <<>>)
          \o (IF skills_score(pd) < 10
              THEN <<"Expand your skills section with relevant technical and soft skills">>
              ELSE <<>>)
          \o (IF projects_score(pd) < 5
              THEN <<"Include relevant projects to showcase your abilities">> ELSE <<>>)
          \o (IF cert_score(pd) < 4
              THEN <<"Add professional certifications if available">> ELSE <<>>)
          \o (IF formatting_score(pd, full_text) < 7
              THEN <<"Use more action verbs and improve resume structure">> ELSE <<>>)
    IN  IF recs # <<>> THEN recs ELSE <<"Your resume looks great! Keep it updated.">>

calculate_ats_score(pd, full_text) ==
    LET score == total_score(pd, full_text)
        percentage == Percentage(score)
    IN  [score |-> score,
         max_score |-> max_score,
         percentage |-> percentage,
         rating |-> Rating(percentage).rating,
         rating_color |-> Rating(percentage).rating_color,
         feedback |-> feedback(pd, full_text),
         scoring_breakdown |-> scoring_breakdown(pd, full_text),
         recommendations |-> recommendations(pd, full_text)]

-----------------------------------------------------------------------------
(* Inputs of the parse-and-score pipeline *)

\* the longest text drawn from Corpus, in lines
MaxLines == 3

\* lines a text is built from: blank, an e-mail address, a phone number,
\* headers (one padded with white space), content with digits and action
\* verbs, and a line of 50 or more characters that mentions keywords
Corpus ==
    { "",
      "jane.roe@mail.org",
      "+1 (555) 123-4567",
      " Skills\r",
      "Experience",
      "Led 3 teams, built and launched 2 apps",
      "Reach me by email or phone at any time during business hours." }

CorpusTexts ==
    {Join(ls, "\n") : ls \in UNION {[1..n -> Corpus] : n \in 0..MaxLines}}

\* the scenario of the specification's testable properties
JohnDoeText ==
    "John Doe\njohn@example.com\n9876543210\n\nEducation\nBTech Computer Science, XYZ University\n\nSkills\nPython, Go, SQL"

\* a resume with every section, repeated headers and capped sub-scores
FullResumeText ==
    "Maya Iyer\nmaya.iyer@mail.org\n+91 98765 43210\n"
    \o "Work History\nDeveloped and designed 4 billing services\nImplemented the audit trail\n"
    \o "Managed a team of 6\nLed the migration\nCreated dashboards\nBuilt the CI pipeline\n"
    \o "Degrees\nBTech in Computing\nMTech in Systems\nPhD in Verification\n"
    \o "Skills\nPython, Go, SQL, Rust, C, Java, Kotlin, Scala\n"
    \o "Personal Projects\nRay tracer\nChess engine\nKey-value store\nShell\n"
    \o "Skills\nTLA+, Coq, Alloy, Z3, Lean, Isabelle, Dafny, SPIN\n"
    \o "Licenses\nAWS SA\nCKA\nOCP\nPMP\n"
    \o "Publications\nPaper A\nPaper B\nPaper C\n"
    \o "Awards\nDean's list\n"
    \o "Hobbies\nImproved, optimized and achieved nothing at chess"

\* two e-mail addresses and two phone numbers
TwoMatchesText == "Ann\nWrite to ann@a.io or bob@b.io\nCall 5551234 or 7778888"

ScenarioTexts ==
    { JohnDoeText,
      FullResumeText,
      "Skills\nPython\nExperience\nAcme 2020\nSkills\nGo, SQL",
      "Education\n\nSkills\nExperience",
      "Thesis\nOn model checking\nStartup\nAcme\nLanguages\nHindi\nInterests\nChess",
      "  \n\t\n",
      "Curriculum vitae of a candidate with many interests in life\nJane",
      "Reach me by email at any time during the business hours.\nJane",
      "Call 555 now\nborn 1999",
      TwoMatchesText }

Texts == CorpusTexts \cup ScenarioTexts

NoCalls == [parse |-> 0, score |-> 0]

\* the document store and the handlers' local variables, where no handler uses them
NoDb == <<>>
NoLocals == <<>>
NoRequest == [route |-> "none"]
NoResponse == [status |-> 0]

Init ==
    /\ text \in Texts
    /\ parsed_data = <<>>
    /\ ats_score = <<>>
    /\ pc = "start"
    /\ request = NoRequest
    /\ response = NoResponse
    /\ calls = NoCalls
    /\ db = NoDb
    /\ locals = NoLocals

\* parsed_data = parse_resume(text)
ParseResume ==
    /\ pc = "start"
    /\ parsed_data' = parse_resume(text)
    /\ calls' = [calls EXCEPT !.parse = @ + 1]
    /\ pc' = "parsed"
    /\ UNCHANGED <<text, ats_score, request, response, db, locals>>

\* ats_score = calculate_ats_score(parsed_data, text)
CalculateAtsScore ==
    /\ pc = "parsed"
    /\ ats_score' = calculate_ats_score(parsed_data, text)
    /\ calls' = [calls EXCEPT !.score = @ + 1]
    /\ pc' = "scored"
    /\ UNCHANGED <<text, parsed_data, request, response, db, locals>>

Next == ParseResume \/ CalculateAtsScore

Spec == Init /\ [][Next]_vars

-----------------------------------------------------------------------------
(* Inputs of the scorer alone: section maps that differ from the empty map  *)
(* or from a map with every section at its cap in at most two sections.     *)

\* the most lines a drawn section holds
MaxItems == 5

Repeat(line, n) == [i \in 1..n |-> line]

PersonalOptions ==
    { <<>>,
      <<"Jane Roe">>,
      <<"Email: jane@mail.org">>,
      <<"Phone: 5551234567">>,
      <<"Email: jane@mail.org", "Phone: 5551234567", "Jane Roe">> }

ExperiencePool == {"Acme Corp, engineer", "Cut costs by 30%"}

SkillsPool == {"Python", "Python, Go, SQL, Rust"}

Uniform(pool) == {Repeat(l, n) : l \in pool, n \in 0..MaxItems}

SectionOptions(k) ==
    CASE k = "personal_info" -> PersonalOptions
      [] k = "education" -> Uniform({"BSc Physics"})
      [] k = "experience" ->
            Uniform(ExperiencePool)
            \cup {Append(Repeat("Acme Corp, engineer", n), "Cut costs by 30%") :
                    n \in 1..(MaxItems - 1)}
      [] k = "skills" -> Uniform(SkillsPool)
      [] k = "projects" -> Uniform({"Ray tracer"})
      [] k = "certifications" -> Uniform({"AWS SA"})
      [] k = "research" -> Uniform({"Paper A"})
      [] OTHER -> {<<>>, <<"Chess">>}

EmptyMap == <<>>

FullMap ==
    [k \in KeySet |->
        CASE k = "personal_info" ->
                <<"Email: jane@mail.org", "Phone: 5551234567", "Jane Roe">>
          [] k = "education" -> Repeat("BSc Physics", 3)
          [] k = "experience" -> Repeat("Cut costs by 30%", 5)
          [] k = "skills" -> Repeat("Python, Go, SQL, Rust", 4)
          [] k = "projects" -> Repeat("Ray tracer", 4)
          [] k = "certifications" -> Repeat("AWS SA", 4)
          [] k = "research" -> Repeat("Paper A", 3)
          [] OTHER -> <<"Chess">>]

\* the sections a drawn map varies
VariedKeys ==
    {"personal_info", "education", "experience", "skills", "projects",
     "certifications", "research", "interests"}

\* pd with pd[k] = v
With(pd, k, v) == [x \in (DOMAIN pd) \cup {k} |-> IF x = k THEN v ELSE pd[x]]

SectionMaps ==
    {With(With(base, k1, v1), k2, v2) :
        <<base, k1, v1, k2, v2>> \in
            UNION {{<<b, a, va, c, vc>> : va \in SectionOptions(a), vc \in SectionOptions(c)} :
                     <<b, a, c>> \in {EmptyMap, FullMap} \X VariedKeys \X VariedKeys}}

\* texts with 0, 2 and 5 action verbs
ScoreTexts ==
    { "",
      "Led and built things",
      "Developed, designed, implemented, managed and created things" }

ScoreInit ==
    /\ parsed_data \in SectionMaps
    /\ text \in ScoreTexts
    /\ ats_score = <<>>
    /\ pc = "parsed"
    /\ request = NoRequest
    /\ response = NoResponse
    /\ calls = NoCalls
    /\ db = NoDb
    /\ locals = NoLocals

\* the scorer run again on the same map with one more experience line
AddExperienceLine ==
    /\ pc = "scored"
    /\ \E line \in ExperiencePool :
          parsed_data' = With(parsed_data, "experience",
                              Append(Get(parsed_data, "experience"), line))
    /\ ats_score' = calculate_ats_score(parsed_data', text)
    /\ calls' = [calls EXCEPT !.score = @ + 1]
    /\ pc' = "rescored"
    /\ UNCHANGED <<text, request, response, db, locals>>

ScoreNext == CalculateAtsScore \/ AddExperienceLine

ScoreSpec == ScoreInit /\ [][ScoreNext]_vars

-----------------------------------------------------------------------------
(* The ATS request handlers *)

\* A document: kind is what the bytes really are; pages and paragraphs are
\* what PyPDF2 / python-docx read from a well-formed file of their kind;
\* bytes is the content as chunks, each valid UTF-8 text or an undecodable run.
Chunk(valid, chars) == [valid |-> valid, chars |-> chars]

Doc(kind, corrupt, units, bytes) ==
    [kind |-> kind, corrupt |-> corrupt, units |-> units, bytes |-> bytes]

Documents ==
    { Doc("pdf", FALSE, <<"Jane Roe\njane.roe@mail.org", "Skills\nPython, Go">>,
          <<Chunk(TRUE, "%PDF-1.7"), Chunk(FALSE, "")>>),
      Doc("pdf", FALSE, <<>>, <<Chunk(TRUE, "%PDF-1.7")>>),
      Doc("pdf", TRUE, <<>>, <<Chunk(TRUE, "%PDF-1.7 trunc"), Chunk(FALSE, "")>>),
      Doc("docx", FALSE, <<"Jane Roe", "", "Experience", "Acme 2020">>,
          <<Chunk(TRUE, "PK"), Chunk(FALSE, ""), Chunk(TRUE, "word/document.xml")>>),
      Doc("docx", FALSE, <<>>, <<Chunk(TRUE, "PK"), Chunk(FALSE, "")>>),
      Doc("docx", TRUE, <<>>, <<Chunk(TRUE, "PK"), Chunk(FALSE, "")>>),
      Doc("txt", FALSE, <<>>,
          <<Chunk(TRUE, "Jane Roe\nEducation\n"), Chunk(FALSE, ""), Chunk(TRUE, "BSc Physics")>>),
      Doc("txt", FALSE, <<>>, <<>>),
      Doc("txt", FALSE, <<>>, <<Chunk(TRUE, " \n"), Chunk(FALSE, "")>>),
      Doc("xlsx", FALSE, <<>>,
          <<Chunk(TRUE, "PK"), Chunk(FALSE, ""), Chunk(TRUE, "xl/workbook.xml")>>) }

\* an exception e with its str(e), and a returned text
Raised(message) == [ok |-> FALSE, text |-> "", error |-> message]
Returned(t) == [ok |-> TRUE, text |-> t, error |-> ""]

\* str(e) of the exception a reader raises on bytes that are not of its kind
NotWellFormed(kind) == "not a well-formed " \o kind

\* text += unit + "\n" for every unit
RECURSIVE ConcatUnits(_, _)
ConcatUnits(units, i) ==
    IF i > Len(units) THEN "" ELSE units[i] \o "\n" \o ConcatUnits(units, i + 1)

\* extract_text_from_pdf returning the text read so far instead of raising
extract_text_from_pdf_swallowing(file) ==
    IF file.kind # "pdf" \/ file.corrupt THEN Returned("")
    ELSE Returned(ConcatUnits(file.units, 1))

\* PyPDF2.PdfReader raises on bytes that are no well-formed PDF
extract_text_from_pdf(file) ==
    IF file.kind # "pdf" \/ file.corrupt THEN Raised(NotWellFormed("pdf"))
    ELSE Returned(ConcatUnits(file.units, 1))

\* docx.Document raises on bytes that are no well-formed DOCX
extract_text_from_docx(file) ==
    IF file.kind # "docx" \/ file.corrupt THEN Raised(NotWellFormed("docx"))
    ELSE Returned(ConcatUnits(file.units, 1))

\* bytes.decode("utf-8", errors="ignore"): undecodable runs are dropped
RECURSIVE DecodeFrom(_, _)
DecodeFrom(bytes, i) ==
    IF i > Len(bytes) THEN ""
    ELSE (IF bytes[i].valid THEN bytes[i].chars ELSE "") \o DecodeFrom(bytes, i + 1)

DecodeIgnore(file) == Returned(DecodeFrom(file.bytes, 1))

validate_drive_link(link) ==
    IF link = "" THEN FALSE
    ELSE StartsWith(link, "https://drive.google.com/")
         \/ StartsWith(link, "https://docs.google.com/")

Error(status, msg) == [status |-> status, error |-> msg]

\* what a handler leaves behind: its response, its locals and the calls it made
Outcome(resp, t, pd, rep, cs) ==
    [response |-> resp, text |-> t, parsed_data |-> pd, ats_score |-> rep, calls |-> cs]

Rejected(resp) == Outcome(resp, "", <<>>, <<>>, NoCalls)

OneCallEach == [parse |-> 1, score |-> 1]

UnsupportedUpload == "Unsupported file format. Please upload PDF, DOCX, or TXT"
UnsupportedSaved == "Unsupported resume format. Please use PDF, DOCX or text"

upload_resume_for_ats(req) ==
    IF ~req.authenticated THEN Rejected([status |-> 401, message |-> "Not authenticated"])
    ELSE IF ~req.has_file THEN Rejected(Error(400, "No file provided"))
    ELSE IF req.filename = "" THEN Rejected(Error(400, "No file selected"))
    ELSE LET filename == Lower(req.filename)
             supported == EndsWith(filename, ".pdf") \/ EndsWith(filename, ".docx")
                          \/ EndsWith(filename, ".txt")
             extracted == IF EndsWith(filename, ".pdf")
                          THEN extract_text_from_pdf(req.document)
                          ELSE IF EndsWith(filename, ".docx")
                          THEN extract_text_from_docx(req.document)
                          ELSE DecodeIgnore(req.document)
             pd == parse_resume(extracted.text)
             rep == calculate_ats_score(pd, extracted.text)
         IN  IF ~supported THEN Rejected(Error(400, UnsupportedUpload))
             ELSE IF ~extracted.ok
             THEN Rejected(Error(500, "Error processing file: " \o extracted.error))
             ELSE Outcome([status |-> 200, success |-> TRUE, filename |-> req.filename,
                           parsed_data |-> pd, ats_score |-> rep],
                          extracted.text, pd, rep, OneCallEach)

DocxContentType ==
    "application/vnd.openxmlformats-officedocument.wordprocessingml.document"
XlsxContentType ==
    "application/vnd.openxmlformats-officedocument.spreadsheetml.sheet"

ats_from_saved_resume(req) ==
    IF ~req.authenticated THEN Rejected(Error(401, "Not authenticated"))
    ELSE LET resume_url == Strip(req.resumeUrl)
             content_type == Lower(req.content_type)
             as_pdf == Contains(resume_url, ".pdf")
                       \/ Contains(content_type, "application/pdf")
             as_docx == Contains(resume_url, ".docx")
                        \/ Contains(content_type, DocxContentType)
             extracted == IF as_pdf THEN extract_text_from_pdf(req.document)
                          ELSE IF as_docx THEN extract_text_from_docx(req.document)
                          ELSE DecodeIgnore(req.document)
             pd == parse_resume(extracted.text)
             rep == calculate_ats_score(pd, extracted.text)
         IN  IF resume_url = "" THEN Rejected(Error(400, "No resume URL found for user"))
             ELSE IF ~validate_drive_link(resume_url)
             THEN Rejected(Error(400, "Invalid resume URL. Must be a Google Drive or Docs link"))
             ELSE IF req.download = "raises"
             THEN Rejected(Error(500, "Failed to analyze resume from saved link"))
             ELSE IF req.download = "404"
             THEN Rejected(Error(502, "Failed to download resume from Drive"))
             ELSE IF req.download = "content raises" /\ (as_pdf \/ as_docx)
             THEN Rejected(Error(500, "Failed to analyze resume from saved link"))
             ELSE IF req.download = "content raises"
             THEN Rejected(Error(400, UnsupportedSaved))
             ELSE IF ~extracted.ok
             THEN Rejected(Error(500, "Failed to analyze resume from saved link"))
             ELSE IF Strip(extracted.text) = ""
             THEN Outcome(Error(400, "Could not extract text from resume"),
                          extracted.text, <<>>, <<>>, NoCalls)
             ELSE Outcome([status |-> 200, parsed_data |-> pd, ats_score |-> rep],
                          extracted.text, pd, rep, OneCallEach)

Filenames == {"", "resume.pdf", "Resume.PDF", "cv.docx", "cv.txt", "marks.xlsx", "resume"}

ResumeUrls ==
    { "",
      "http://example.com/resume.pdf",
      " https://drive.google.com/file/d/abc123/view ",
      "https://drive.google.com/uc?id=abc123&name=cv.pdf",
      "https://docs.google.com/document/d/abc123/cv.docx" }

OctetStream == "application/octet-stream"

\* the Content-Type the download carries for a document of a kind
ContentTypeOf(kind) ==
    CASE kind = "pdf" -> "application/pdf"
      [] kind = "docx" -> DocxContentType
      [] kind = "xlsx" -> XlsxContentType
      [] OTHER -> "text/plain; charset=UTF-8"

UploadRequests ==
    [route : {"upload"}, authenticated : BOOLEAN, has_file : BOOLEAN,
     filename : Filenames, document : Documents]

\* requests.get: the status of the response, with a body whose reading
\* raises (the body is fetched when response.content is read), or an exception
Downloads == {"200", "404", "content raises", "raises"}

SavedRequests ==
    {[route |-> "saved", authenticated |-> a, resumeUrl |-> u, download |-> d,
      content_type |-> c, document |-> doc] :
        <<a, u, d, c, doc>> \in
            UNION {BOOLEAN \X ResumeUrls \X Downloads
                   \X {ContentTypeOf(x.kind), OctetStream} \X {x} : x \in Documents}}

HandlerInit ==
    /\ request \in UploadRequests \cup SavedRequests
    /\ text = ""
    /\ parsed_data = <<>>
    /\ ats_score = <<>>
    /\ pc = "request"
    /\ response = NoResponse
    /\ calls = NoCalls
    /\ db = NoDb
    /\ locals = NoLocals

Respond(out) ==
    /\ response' = out.response
    /\ text' = out.text
    /\ parsed_data' = out.parsed_data
    /\ ats_score' = out.ats_score
    /\ calls' = out.calls
    /\ pc' = "responded"
    /\ UNCHANGED <<request, db, locals>>

\* POST /api/ats/upload
UploadResumeForAts ==
    /\ pc = "request"
    /\ request.route = "upload"
    /\ Respond(upload_resume_for_ats(request))

\* POST /api/ats/from_saved_resume
AtsFromSavedResume ==
    /\ pc = "request"
    /\ request.route = "saved"
    /\ Respond(ats_from_saved_resume(request))

HandlerNext == UploadResumeForAts \/ AtsFromSavedResume

HandlerSpec == HandlerInit /\ [][HandlerNext]_vars

-----------------------------------------------------------------------------
(* Two calls of parse_resume / calculate_ats_score served at the same time. *)
(* Every variable of the two functions is a local of the call, so each call *)
(* has a frame of its own; a step is one statement group of one call.       *)

Workers == {"a", "b"}

\* one frame for all calls, as if the locals were module-level variables
FrameShared(w) == "a"

\* the frame that holds the locals of a worker's call
Frame(w) == w

\* a line with keywords of two keys, and lines of 49 and of 50 characters
\* with a keyword
HeaderCasesText ==
    "Skills and Projects\nRay tracer\n"
    \o "Technical skills I have used in the last six jobs\nGo\n"
    \o "Technical skills I have used in the last ten years"

ConcTexts ==
    { "",
      "Call 555 now\nborn 1999",
      "Skills\nPython\nExperience\nAcme 2020\nSkills\nGo, SQL",
      "Jane\njane.roe@mail.org\nEducation\nBSc Physics",
      HeaderCasesText }

NoFrame == [lines |-> <<>>, i |-> 0, scan |-> <<>>, result |-> <<>>]

\* some other call is between its first and its last statement
Overlaps(w) == \E o \in Workers \ {w} : pc[o] \in {"scanning", "parsed"}

ConcInit ==
    /\ text \in [Workers -> ConcTexts]
    /\ parsed_data = [w \in Workers |-> NoFrame]
    /\ ats_score = [w \in Workers |-> <<>>]
    /\ pc = [w \in Workers |-> "start"]
    /\ request = NoRequest
    /\ response = NoResponse
    /\ calls = [parse |-> 0, score |-> 0, overlap |-> FALSE]
    /\ db = NoDb
    /\ locals = NoLocals

\* lines = text.split("\n"); parsed_data = {...}; the Email / Phone entries
StartParse(w) ==
    /\ pc[w] = "start"
    /\ LET lines == Split(text[w], "\n")
       IN  parsed_data' =
              [parsed_data EXCEPT ![Frame(w)] =
                  [lines |-> lines, i |-> 1, result |-> <<>>,
                   scan |-> [parsed |-> [k \in KeySet |->
                                           IF k = "personal_info"
                                           THEN ContactEntries(Join(lines, " "))
                                           ELSE <<>>],
                             current_section |-> NoSection,
                             current_content |-> <<>>]]]
    /\ pc' = [pc EXCEPT ![w] = "scanning"]
    /\ calls' = [calls EXCEPT !.parse = @ + 1, !.overlap = @ \/ Overlaps(w)]
    /\ UNCHANGED <<text, ats_score, request, response, db, locals>>

\* one iteration of "for line in lines"
ScanStep(w) ==
    /\ pc[w] = "scanning"
    /\ LET f == parsed_data[Frame(w)]
       IN  /\ f.i <= Len(f.lines)
           /\ parsed_data' =
                 [parsed_data EXCEPT ![Frame(w)] =
                     [f EXCEPT !.scan = ScanLine(f.scan, f.lines[f.i]), !.i = f.i + 1]]
    /\ calls' = [calls EXCEPT !.overlap = @ \/ Overlaps(w)]
    /\ UNCHANGED <<text, ats_score, pc, request, response, db, locals>>

\* the flush after the loop and the return of the non-empty sections
FinishParse(w) ==
    /\ pc[w] = "scanning"
    /\ LET f == parsed_data[Frame(w)]
       IN  /\ f.i > Len(f.lines)
           /\ parsed_data' =
                 [parsed_data EXCEPT ![Frame(w)] =
                     [f EXCEPT !.result = DropEmpty(Flush(f.scan))]]
    /\ pc' = [pc EXCEPT ![w] = "parsed"]
    /\ calls' = [calls EXCEPT !.overlap = @ \/ Overlaps(w)]
    /\ UNCHANGED <<text, ats_score, request, response, db, locals>>

\* ats_score = calculate_ats_score(parsed_data, text)
ScoreParsed(w) ==
    /\ pc[w] = "parsed"
    /\ ats_score' = [ats_score EXCEPT
                        ![w] = calculate_ats_score(parsed_data[Frame(w)].result, text[w])]
    /\ pc' = [pc EXCEPT ![w] = "scored"]
    /\ calls' = [calls EXCEPT !.score = @ + 1, !.overlap = @ \/ Overlaps(w)]
    /\ UNCHANGED <<text, parsed_data, request, response, db, locals>>

ConcNext ==
    \E w \in Workers : StartParse(w) \/ ScanStep(w) \/ FinishParse(w) \/ ScoreParsed(w)

ConcSpec == ConcInit /\ [][ConcNext]_vars

-----------------------------------------------------------------------------

(* The document store (src/database.py) and the requests that use it.  A   *)
(* collection is the set of its documents; a handler under way belongs to  *)
(* a client, and between two operations on the store the handlers of the   *)
(* other clients may run.                                                  *)

Clients == {"c1", "c2"}

\* the collections that the handlers below read and write
EmptyDb ==
    [users |-> {}, admin_projects |-> {}, admin_research |-> {},
     admin_patents |-> {}, student_applications |-> {}]

\* str(uuid.uuid4()): the n-th identifier drawn
uuid4(n) == "u" \o ToString(n)

Idle == [c \in Clients |-> "idle"]
NoRequests == [c \in Clients |-> NoRequest]
NoResponses == [c \in Clients |-> NoResponse]
NoClientLocals == [c \in Clients |-> <<>>]

\* jsonify({"message": msg}), status
Reply(status, msg) == [status |-> status, message |-> msg]

-----------------------------------------------------------------------------
(* POST /api/auth/signup *)

\* the most signup requests of a behaviour
MaxSignups == 3

\* a field that is missing from the body, or empty: data.get(f) is falsy
Absent == ""

SignupEmails == {"ann@mail.org", " Ann@Mail.org ", "bob@mail.org", Absent}
SignupUserTypes == {"student", "admin ", "guest"}

SignupBodies ==
    {[email |-> e, password |-> "pw", name |-> " Ann ", userType |-> t] :
        e \in SignupEmails, t \in SignupUserTypes}
    \cup {[email |-> "bob@mail.org", password |-> Absent, name |-> Absent,
           userType |-> "student"]}

valid_user_types == <<"student", "admin", "placementCell">>

\* users_collection without the unique index
DuplicateKeyUnindexed(users, doc) == FALSE

\* users_collection.create_index("email", unique=True): insert_one raises
\* DuplicateKeyError when a stored user has the e-mail of the new one
DuplicateKey(users, doc) == \E u \in users : u.email = doc.email

\* the part of signup up to users_collection.find_one({"email": email})
signup_find_one(c) ==
    /\ pc[c] = "idle"
    /\ calls.signup + calls.requests < MaxSignups
    /\ \E data \in SignupBodies :
          LET required == <<"email", "password", "name", "userType">>
              missing == SelectSeq(required, LAMBDA f : data[f] = Absent)
              email == Strip(Lower(data.email))
              name == Strip(data.name)
              userType == Strip(data.userType)
              reject(reply) ==
                  /\ response' = [response EXCEPT ![c] = reply]
                  /\ UNCHANGED <<pc, locals>>
          IN  /\ request' = [request EXCEPT ![c] = [route |-> "signup", data |-> data]]
              /\ IF missing # <<>>
                 THEN reject(Reply(400, "Missing fields: " \o Join(missing, ", ")))
                 ELSE IF \A i \in DOMAIN valid_user_types : valid_user_types[i] # userType
                 THEN reject(Reply(400, "Invalid userType. Must be one of: "
                                         \o Join(valid_user_types, ", ")))
                 ELSE IF \E u \in db.users : u.email = email
                 THEN reject(Reply(400, "User already exists"))
                 ELSE /\ pc' = [pc EXCEPT ![c] = "signup_insert_one"]
                      /\ locals' = [locals EXCEPT ![c] =
                                       [email |-> email, name |-> name, userType |-> userType]]
                      /\ response' = [response EXCEPT ![c] = NoResponse]
    /\ calls' = [calls EXCEPT !.signup = @ + 1]
    /\ UNCHANGED <<db, text, parsed_data, ats_score>>

\* users_collection.insert_one(new_user) and the response
signup_insert_one(c) ==
    /\ pc[c] = "signup_insert_one"
    /\ LET new_user == [_id |-> uuid4(calls.uuid4),
                        email |-> locals[c].email,
                        name |-> locals[c].name,
                        userType |-> locals[c].userType,
                        onboardingCompleted |-> locals[c].userType # "student"]
       IN  IF DuplicateKey(db.users, new_user)
           THEN /\ response' = [response EXCEPT ![c] = Reply(500, "Internal server error")]
                /\ UNCHANGED db
           ELSE /\ response' = [response EXCEPT ![c] = Reply(201, "Signup successful!")]
                /\ db' = [db EXCEPT !.users = @ \cup {new_user}]
    /\ calls' = [calls EXCEPT !.uuid4 = @ + 1]
    /\ pc' = [pc EXCEPT ![c] = "idle"]
    /\ locals' = [locals EXCEPT ![c] = <<>>]
    /\ UNCHANGED <<request, text, parsed_data, ats_score>>

-----------------------------------------------------------------------------

(* Opportunities and applications: the admin routes of the three           *)
(* opportunity collections and the student and admin routes of             *)
(* student_applications.  The users are those of earlier signups; the      *)
(* handlers of this part read them, and update_user_profile and onboarding *)
(* write the profile fields of the caller.                                 *)

\* the most requests of a behaviour
MaxRequests == 3

\* the most identifiers drawn, the stored project's among them
MaxInserts == 3

\* the users as signup stored them: a student, an admin and a placementCell
\* user, each with the onboardingCompleted of its userType
StoredUsers ==
    { [_id |-> "stu", email |-> "stu@mail.org", name |-> "Sam", userType |-> "student",
       onboardingCompleted |-> FALSE],
      [_id |-> "adm", email |-> "adm@mail.org", name |-> "Ada", userType |-> "admin",
       onboardingCompleted |-> TRUE],
      [_id |-> "cell", email |-> "cell@mail.org", name |-> "Cy",
       userType |-> "placementCell", onboardingCompleted |-> TRUE] }

\* a project an admin created earlier
StoredProject ==
    [_id |-> uuid4(0), title |-> "Compiler", createdBy |-> "adm", status |-> "active"]

\* the bearer of a request: the _id in the token, or no token
NoToken == "anon"
Callers == {NoToken} \cup {u._id : u \in StoredUsers}

\* get_current_user(): the users with the _id of the token, none without a token
get_current_user(token) == {u \in db.users : token # NoToken /\ u._id = token}

\* the checks without the comparison of the userType
TurnedAwayWithoutToken(token, userType, message) ==
    IF get_current_user(token) = {} THEN Reply(401, "Not authenticated")
    ELSE NoResponse

\* the two checks every handler below starts with: the reply that turns the
\* caller away, NoResponse for a caller of the required userType
TurnedAway(token, userType, message) ==
    IF get_current_user(token) = {} THEN Reply(401, "Not authenticated")
    ELSE IF \E u \in get_current_user(token) : u.userType # userType
         THEN Reply(403, message)
         ELSE NoResponse

OpportunityTypes == {"project", "research", "patent"}

\* the collection that holds the opportunities of a type
CollectionOf(type) ==
    CASE type = "project" -> "admin_projects"
      [] type = "research" -> "admin_research"
      [] type = "patent" -> "admin_patents"

\* what the replies call an opportunity of a type
Titled(type) ==
    CASE type = "project" -> "Project"
      [] type = "research" -> "Research paper"
      [] type = "patent" -> "Patent"

\* the identifiers drawn so far, and the next ones
DrawnIds == {uuid4(n) : n \in 0..(calls.uuid4 - 1)}
PathIds == {uuid4(n) : n \in 0..(MaxInserts - 1)}

\* the handlers under way that will draw an identifier
Drawing == {c \in Clients : pc[c] \in {"submit_find_existing", "submit_insert_one"}}

\* the requests taken so far, signups among them
Received == calls.requests + (IF "signup" \in DOMAIN calls THEN calls.signup ELSE 0)

\* a new request may be taken
MayReceive(c) == pc[c] = "idle" /\ Received < MaxRequests

\* a request that will insert a document may be taken
MayInsert(c) == MayReceive(c) /\ calls.uuid4 + Cardinality(Drawing) < MaxInserts

\* what is kept of a request: its route, its bearer and its number in the
\* order of arrival
Taken(req) == [route |-> req.route, caller |-> req.caller, number |-> calls.requests + 1]

\* the request is taken by client c
Receive(c, req) ==
    /\ request' = [request EXCEPT ![c] = Taken(req)]
    /\ calls' = [calls EXCEPT !.requests = @ + 1]

\* the handler of client c returns
Return(c, reply) ==
    /\ response' = [response EXCEPT ![c] = reply]
    /\ pc' = [pc EXCEPT ![c] = "idle"]
    /\ locals' = [locals EXCEPT ![c] = <<>>]

\* the handler of client c goes on to its next operation on the store
GoOn(c, to, vals) ==
    /\ response' = [response EXCEPT ![c] = NoResponse]
    /\ pc' = [pc EXCEPT ![c] = to]
    /\ locals' = [locals EXCEPT ![c] = vals]

\* the requests a caller may send: one that is turned away is not read further
RequestsBy(route, allowed, bodies) ==
    {[route |-> route, caller |-> t, data |-> d] :
        <<t, d>> \in ({allowed} \X bodies)
                     \cup ((Callers \ {allowed}) \X {CHOOSE d \in bodies : TRUE})}

Untouched == <<text, parsed_data, ats_score>>

-----------------------------------------------------------------------------
(* POST, PUT, DELETE /api/user/admin/projects, .../research, .../patents *)

CreateBodies ==
    { [title |-> "Compiler", domain |-> "PL", studentsRequired |-> "2",
       googleFormLink |-> "https://forms.gle/x"],
      [title |-> "Compiler", domain |-> "PL", studentsRequired |-> "2"] }

\* create_admin_project, create_admin_research, create_admin_patent
CreateOpportunity(c, type) ==
    /\ MayInsert(c)
    /\ \E req \in RequestsBy("create_admin_" \o type, "adm", CreateBodies) :
          LET away == TurnedAway(req.caller, "admin", "Unauthorized")
              required_fields == {"title", "domain", "studentsRequired", "googleFormLink"}
              doc == [_id |-> uuid4(calls.uuid4), title |-> req.data.title,
                      createdBy |-> req.caller, status |-> "active"]
          IN  /\ request' = [request EXCEPT ![c] = Taken(req)]
              /\ IF away # NoResponse
                 THEN /\ Return(c, away)
                      /\ calls' = [calls EXCEPT !.requests = @ + 1]
                      /\ UNCHANGED db
                 ELSE IF ~(required_fields \subseteq DOMAIN req.data)
                 THEN /\ Return(c, Reply(400, "Missing required field: googleFormLink"))
                      /\ calls' = [calls EXCEPT !.requests = @ + 1]
                      /\ UNCHANGED db
                 ELSE /\ Return(c, Reply(201, Titled(type) \o " created successfully"))
                      /\ calls' = [calls EXCEPT !.requests = @ + 1, !.uuid4 = @ + 1]
                      /\ db' = [db EXCEPT ![CollectionOf(type)] = @ \cup {doc}]
    /\ UNCHANGED Untouched

create_admin_project(c) == CreateOpportunity(c, "project")
create_admin_research(c) == CreateOpportunity(c, "research")
create_admin_patent(c) == CreateOpportunity(c, "patent")

\* the fields of an update body that are stored: those with a value
UpdateBodies ==
    {[id |-> i, fields |-> f] :
        i \in PathIds,
        f \in {[status |-> "closed"], [title |-> "Renamed"]}}

\* {"$set": fields} on a document
Set(doc, fields) ==
    [k \in (DOMAIN doc) \cup (DOMAIN fields) |->
        IF k \in DOMAIN fields THEN fields[k] ELSE doc[k]]

\* collection.update_one({"_id": id}, {"$set": fields})
update_one(collection, id, fields) ==
    {IF d._id = id THEN Set(d, fields) ELSE d : d \in collection}

\* collection.delete_one({"_id": id})
delete_one(collection, id) == {d \in collection : d._id # id}

\* result.matched_count, result.deleted_count
matched_count(collection, id) == Cardinality({d \in collection : d._id = id})

\* update_admin_project, update_admin_research, update_admin_patent
UpdateOpportunity(c, type) ==
    /\ MayReceive(c)
    /\ \E req \in RequestsBy("update_admin_" \o type, "adm", UpdateBodies) :
          LET away == TurnedAway(req.caller, "admin", "Unauthorized")
              collection == db[CollectionOf(type)]
          IN  /\ Receive(c, req)
              /\ IF away # NoResponse
                 THEN Return(c, away) /\ UNCHANGED db
                 ELSE /\ db' = [db EXCEPT ![CollectionOf(type)] =
                                   update_one(collection, req.data.id, req.data.fields)]
                      /\ IF matched_count(collection, req.data.id) = 0
                         THEN Return(c, Reply(404, Titled(type) \o " not found"))
                         ELSE Return(c, Reply(200, Titled(type) \o " updated successfully"))
    /\ UNCHANGED Untouched

update_admin_project(c) == UpdateOpportunity(c, "project")
update_admin_research(c) == UpdateOpportunity(c, "research")
update_admin_patent(c) == UpdateOpportunity(c, "patent")

DeleteBodies == {[id |-> i] : i \in PathIds}

\* delete_admin_project, delete_admin_research, delete_admin_patent
DeleteOpportunity(c, type) ==
    /\ MayReceive(c)
    /\ \E req \in RequestsBy("delete_admin_" \o type, "adm", DeleteBodies) :
          LET away == TurnedAway(req.caller, "admin", "Unauthorized")
              collection == db[CollectionOf(type)]
          IN  /\ Receive(c, req)
              /\ IF away # NoResponse
                 THEN Return(c, away) /\ UNCHANGED db
                 ELSE /\ db' = [db EXCEPT ![CollectionOf(type)] =
                                   delete_one(collection, req.data.id)]
                      /\ IF matched_count(collection, req.data.id) = 0
                         THEN Return(c, Reply(404, Titled(type) \o " not found"))
                         ELSE Return(c, Reply(200, Titled(type) \o " deleted successfully"))
    /\ UNCHANGED Untouched

delete_admin_project(c) == DeleteOpportunity(c, "project")
delete_admin_research(c) == DeleteOpportunity(c, "research")
delete_admin_patent(c) == DeleteOpportunity(c, "patent")

-----------------------------------------------------------------------------

(* POST, PUT, DELETE /api/student/applications and                        *)
(* PUT /api/admin/applications/<application_id>/status                     *)

GoodLink == "https://drive.google.com/file/d/1"
PaddedLink == " https://docs.google.com/document/d/2 "
OtherLink == "http://drive.google.com/file/d/1"

SubmitBodies ==
    {[opportunityId |-> i, opportunityType |-> t, resumeLink |-> l[1], submissionLink |-> l[2]] :
        i \in PathIds, t \in OpportunityTypes \cup {"internship"},
        l \in {<<GoodLink, PaddedLink>>, <<OtherLink, GoodLink>>, <<GoodLink, Absent>>}}

\* submit_student_application up to the lookup of the opportunity
submit_find_opportunity(c) ==
    /\ MayInsert(c)
    /\ \E req \in RequestsBy("submit_student_application", "stu", SubmitBodies) :
          LET away == TurnedAway(req.caller, "student", "Only students can submit applications")
              data == req.data
              required_fields == <<"opportunityId", "opportunityType", "resumeLink", "submissionLink">>
              missing == {i \in 1..4 : data[required_fields[i]] = Absent}
              first == CHOOSE i \in missing : \A j \in missing : i <= j
          IN  /\ Receive(c, req)
              /\ CASE away # NoResponse -> Return(c, away)
                   [] away = NoResponse /\ missing # {} ->
                        Return(c, Reply(400, "Missing required field: " \o required_fields[first]))
                   [] away = NoResponse /\ missing = {}
                         /\ data.opportunityType \notin OpportunityTypes ->
                        Return(c, Reply(400, "Invalid opportunity type"))
                   [] away = NoResponse /\ missing = {}
                         /\ data.opportunityType \in OpportunityTypes
                         /\ ~\E o \in db[CollectionOf(data.opportunityType)] :
                                 o._id = data.opportunityId ->
                        Return(c, Reply(404, "Opportunity not found"))
                   [] OTHER ->
                        GoOn(c, "submit_find_existing",
                             [studentId |-> req.caller,
                              opportunityId |-> data.opportunityId,
                              opportunityType |-> data.opportunityType,
                              resumeLink |-> data.resumeLink,
                              submissionLink |-> data.submissionLink])
    /\ UNCHANGED <<db, Untouched>>

\* submit_student_application from the lookup of an earlier application to
\* the validation of the links
submit_find_existing(c) ==
    /\ pc[c] = "submit_find_existing"
    /\ LET l == locals[c]
           resume_link == Strip(l.resumeLink)
           submission_link == Strip(l.submissionLink)
       IN  CASE (\E a \in db.student_applications :
                      /\ a.studentId = l.studentId
                      /\ a.opportunityId = l.opportunityId
                      /\ a.opportunityType = l.opportunityType) ->
                  Return(c, Reply(400, "You have already applied to this opportunity"))
             [] ~validate_drive_link(resume_link) ->
                  Return(c, Reply(400, "Invalid resume link. Must be a Google Drive link"))
             [] ~validate_drive_link(submission_link) ->
                  Return(c, Reply(400, "Invalid submission link. Must be a Google Drive link"))
             [] OTHER ->
                  GoOn(c, "submit_insert_one",
                       [l EXCEPT !.resumeLink = resume_link,
                                 !.submissionLink = submission_link])
    /\ UNCHANGED <<request, calls, db, Untouched>>

\* submit_student_application: the insert and the reply
submit_insert_one(c) ==
    /\ pc[c] = "submit_insert_one"
    /\ LET l == locals[c]
           application == [_id |-> uuid4(calls.uuid4),
                           studentId |-> l.studentId,
                           opportunityId |-> l.opportunityId,
                           opportunityType |-> l.opportunityType,
                           resumeLink |-> l.resumeLink,
                           submissionLink |-> l.submissionLink,
                           coverLetter |-> "",
                           status |-> "pending"]
       IN  /\ db' = [db EXCEPT !.student_applications = @ \cup {application}]
           /\ calls' = [calls EXCEPT !.uuid4 = @ + 1]
           /\ Return(c, Reply(201, "Application submitted successfully"))
    /\ UNCHANGED <<request, Untouched>>

\* the fields a student sends to update_student_application
StudentUpdateBodies ==
    {[id |-> i, fields |-> f] :
        i \in PathIds,
        f \in {[resumeLink |-> " http://tiny.example/cv "],
               [coverLetter |-> "Dear committee", status |-> "approved"]}}

\* update_fields of update_student_application
update_fields(data) ==
    [k \in (DOMAIN data)
              \cap {"resumeLink", "submissionLink", "additionalLinks", "coverLetter"} |->
        IF k \in {"resumeLink", "submissionLink"} THEN Strip(data[k]) ELSE data[k]]

\* the lookup update_student_application and delete_student_application
\* start with, and their check of the status
FindOwnPending(c, req, notPending) ==
    LET found == {a \in db.student_applications :
                     a._id = req.data.id /\ a.studentId = req.caller}
    IN  CASE found = {} -> Return(c, Reply(404, "Application not found"))
          [] \E a \in found : a.status # "pending" -> Return(c, Reply(400, notPending))
          [] OTHER -> GoOn(c, req.route, req.data)

\* update_student_application up to the check of the status
update_find_application(c) ==
    /\ MayReceive(c)
    /\ \E req \in RequestsBy("update_student_application", "stu", StudentUpdateBodies) :
          LET away == TurnedAway(req.caller, "student",
                                 "Only students can update their applications")
          IN  /\ Receive(c, req)
              /\ IF away # NoResponse
                 THEN Return(c, away)
                 ELSE FindOwnPending(c, req, "Can only update pending applications")
    /\ UNCHANGED <<db, Untouched>>

\* update_student_application: the write and the reply
update_update_one(c) ==
    /\ pc[c] = "update_student_application"
    /\ db' = [db EXCEPT !.student_applications =
                 update_one(@, locals[c].id, update_fields(locals[c].fields))]
    /\ Return(c, Reply(200, "Application updated successfully"))
    /\ UNCHANGED <<request, calls, Untouched>>

\* delete_student_application up to the check of the status
delete_find_application(c) ==
    /\ MayReceive(c)
    /\ \E req \in RequestsBy("delete_student_application", "stu", DeleteBodies) :
          LET away == TurnedAway(req.caller, "student",
                                 "Only students can delete their applications")
          IN  /\ Receive(c, req)
              /\ IF away # NoResponse
                 THEN Return(c, away)
                 ELSE FindOwnPending(c, req, "Can only withdraw pending applications")
    /\ UNCHANGED <<db, Untouched>>

\* delete_student_application: the delete and the reply
delete_delete_one(c) ==
    /\ pc[c] = "delete_student_application"
    /\ db' = [db EXCEPT !.student_applications = delete_one(@, locals[c].id)]
    /\ Return(c, Reply(200, "Application withdrawn successfully"))
    /\ UNCHANGED <<request, calls, Untouched>>

StatusBodies ==
    {[id |-> i, status |-> s] :
        i \in PathIds, s \in {"approved", "pending", "shortlisted"}}

update_application_status(c) ==
    /\ MayReceive(c)
    /\ \E req \in RequestsBy("update_application_status", "adm", StatusBodies) :
          LET away == TurnedAway(req.caller, "admin", "Unauthorized. Admin access required.")
              new_status == req.data.status
              applications == db.student_applications
          IN  /\ Receive(c, req)
              /\ CASE away # NoResponse -> Return(c, away) /\ UNCHANGED db
                   [] away = NoResponse
                         /\ new_status \notin {"approved", "rejected", "pending"} ->
                        /\ Return(c, Reply(400,
                              "Invalid status. Must be 'approved', 'rejected', or 'pending'"))
                        /\ UNCHANGED db
                   [] OTHER ->
                        /\ db' = [db EXCEPT !.student_applications =
                                     update_one(@, req.data.id,
                                                [status |-> new_status,
                                                 reviewedBy |-> req.caller])]
                        /\ IF matched_count(applications, req.data.id) = 0
                           THEN Return(c, Reply(404, "Application not found"))
                           ELSE Return(c, Reply(200, "Application " \o new_status
                                                       \o " successfully"))
    /\ UNCHANGED Untouched

(* PUT /api/user and POST /api/onboarding: a user writes to the own document *)

\* the tokens in use: those of the stored users, or none
Tokens == {NoToken} \cup {u._id : u \in db.users}

\* a cgpa float() converts, with the number it gives, and one it raises on
Cgpa91 == [text |-> " 9.10 ", number |-> "9.1"]
CgpaNone == [text |-> "n/a"]

\* float(value): raises ValueError on a text that is no number
float(value) ==
    IF "number" \in DOMAIN value THEN Returned(value.number) ELSE Raised("ValueError")

ProfileBodies ==
    { [name |-> "Zed"],
      [onboardingCompleted |-> TRUE, email |-> "ann@mail.org", userType |-> "admin"],
      [name |-> "Zed", cgpa |-> Cgpa91],
      [name |-> "Zed", cgpa |-> CgpaNone] }

\* the keys update_user_profile copies from the body
ProfileKeys ==
    {"name", "field", "year", "cgpa", "mobile", "resumeUrl", "performanceDocUrl",
     "rollNo", "skills", "techStack", "aiTools", "experiences", "certifications",
     "projects", "onboardingCompleted"}

\* update_fields of update_user_profile
profile_fields(data) ==
    [k \in (DOMAIN data) \cap ProfileKeys |->
        IF k = "cgpa" THEN float(data[k]).text ELSE data[k]]

update_user_profile(c) ==
    /\ MayReceive(c)
    /\ \E t \in Tokens : \E data \in ProfileBodies :
          LET req == [route |-> "update_user_profile", caller |-> t]
          IN  /\ Receive(c, req)
              /\ CASE get_current_user(t) = {} ->
                        Return(c, Reply(401, "Not authenticated")) /\ UNCHANGED db
                   [] get_current_user(t) # {}
                         /\ "cgpa" \in DOMAIN data /\ ~float(data.cgpa).ok ->
                        Return(c, Reply(500, "Failed to update profile")) /\ UNCHANGED db
                   [] OTHER ->
                        /\ db' = [db EXCEPT !.users = update_one(@, t, profile_fields(data))]
                        /\ Return(c, Reply(200, "Profile updated successfully"))
    /\ UNCHANGED Untouched

\* the absent value: payload.get(key) of a key the payload lacks
None == "None"

\* d.get(key, default)
GetOr(d, key, default) == IF key \in DOMAIN d THEN d[key] ELSE default

\* the fields of one key, or none
Only(key, value, present) == [k \in (IF present THEN {key} ELSE {}) |-> value]

\* two sets of fields in one
Both(f, g) ==
    [k \in (DOMAIN f) \cup (DOMAIN g) |-> IF k \in DOMAIN g THEN g[k] ELSE f[k]]

\* a text that counts as true in a condition
Truthy(v) == v \notin {None, ""}

\* update_fields of onboarding
onboarding_fields(data) ==
    LET step == GetOr(data, "step", None)
        payload == GetOr(data, "data", <<>>)
        completed == GetOr(data, "completed", FALSE)
        linked(key) == Only(key, GetOr(payload, key, None),
                            Truthy(GetOr(payload, key, None)))
        of_step ==
            CASE step = "basic_info" ->
                   [k \in {"field", "year", "mobile", "cgpa", "rollNo"} |->
                       GetOr(payload, k, None)]
              [] step = "experiences" ->
                   Both([experiences |-> GetOr(payload, "experiences", <<>>)],
                        linked("linkedinProfile"))
              [] step = "certifications" ->
                   [certifications |-> GetOr(payload, "achievements", <<>>)]
              [] step = "projects" ->
                   Both([projects |-> GetOr(payload, "projects", <<>>)],
                        linked("githubProfile"))
              [] step = "skills" -> [skills |-> GetOr(payload, "skills", <<>>)]
              [] step = "tech_stack" -> [techStack |-> GetOr(payload, "techStack", <<>>)]
              [] step = "ai_tools" -> [aiTools |-> GetOr(payload, "aiTools", <<>>)]
              [] OTHER -> <<>>
    IN  Both(of_step, Only("onboardingCompleted", TRUE, completed))

OnboardingBodies ==
    { [method |-> "OPTIONS"],
      [method |-> "POST", step |-> "basic_info", data |-> [field |-> "CSE", year |-> "3"]],
      [method |-> "POST", step |-> "projects",
       data |-> [projects |-> <<"Ray tracer">>, githubProfile |-> "github.com/ann"],
       completed |-> TRUE],
      [method |-> "POST", step |-> "review", userType |-> "admin"] }

onboarding(c) ==
    /\ MayReceive(c)
    /\ \E t \in Tokens : \E data \in OnboardingBodies :
          LET req == [route |-> "onboarding", caller |-> t]
          IN  /\ Receive(c, req)
              /\ CASE data.method = "OPTIONS" ->
                        Return(c, Reply(200, "OK")) /\ UNCHANGED db
                   [] data.method # "OPTIONS" /\ get_current_user(t) = {} ->
                        Return(c, Reply(401, "Not authenticated")) /\ UNCHANGED db
                   [] OTHER ->
                        /\ db' = [db EXCEPT !.users =
                                     update_one(@, t, onboarding_fields(data))]
                        /\ Return(c, Reply(200, "Onboarding data saved successfully"))
    /\ UNCHANGED Untouched

-----------------------------------------------------------------------------
SignupInit ==
    /\ db = EmptyDb
    /\ pc = Idle
    /\ request = NoRequests
    /\ response = NoResponses
    /\ locals = NoClientLocals
    /\ calls = [signup |-> 0, uuid4 |-> 0, requests |-> 0]
    /\ text = ""
    /\ parsed_data = <<>>
    /\ ats_score = <<>>

SignupNext ==
    \E c \in Clients :
        \/ signup_find_one(c)
        \/ signup_insert_one(c)
        \/ update_user_profile(c)
        \/ onboarding(c)

SignupSpec == SignupInit /\ [][SignupNext]_vars

-----------------------------------------------------------------------------
AppInit ==
    /\ db = [EmptyDb EXCEPT !.users = StoredUsers, !.admin_projects = {StoredProject}]
    /\ pc = Idle
    /\ request = NoRequests
    /\ response = NoResponses
    /\ locals = NoClientLocals
    /\ calls = [requests |-> 0, uuid4 |-> 1]
    /\ text = ""
    /\ parsed_data = <<>>
    /\ ats_score = <<>>

AppNext ==
    \E c \in Clients :
        \/ create_admin_project(c)
        \/ create_admin_research(c)
        \/ create_admin_patent(c)
        \/ update_admin_project(c)
        \/ update_admin_research(c)
        \/ update_admin_patent(c)
        \/ delete_admin_project(c)
        \/ delete_admin_research(c)
        \/ delete_admin_patent(c)
        \/ submit_find_opportunity(c)
        \/ submit_find_existing(c)
        \/ submit_insert_one(c)
        \/ update_find_application(c)
        \/ update_update_one(c)
        \/ delete_find_application(c)
        \/ delete_delete_one(c)
        \/ update_application_status(c)
        \/ update_user_profile(c)
        \/ onboarding(c)

AppSpec == AppInit /\ [][AppNext]_vars

(* Inputs of the Formatting & Keywords criterion: texts with a chosen       *)
(* number of action verbs, in mixed case, and section maps with a chosen    *)
(* set of populated keys, the other keys missing or present and empty.      *)

\* the most action verbs a drawn text holds
MaxVerbs == 7

\* the most keys a drawn map populates
MaxPopulated == 5

\* the action verbs as a resume may spell them
SpelledVerbs ==
    << "Developed", "DESIGNED", "implemented", "Managed", "led", "Created",
       "built", "Improved", "optimized", "ACHIEVED", "delivered", "Launched" >>

VerbTexts == {Join(SubSeq(SpelledVerbs, 1, n), ", ") : n \in 0..MaxVerbs}

PopulatedSets == SUBSET {SectionKeys[i] : i \in 1..MaxPopulated}

FormatMaps ==
    {[k \in S |-> <<"Ray tracer">>] : S \in PopulatedSets}
    \cup {[k \in KeySet |-> IF k \in S THEN <<"Ray tracer">> ELSE <<>>] :
            S \in PopulatedSets}

FormatInit ==
    /\ parsed_data \in FormatMaps
    /\ text \in VerbTexts
    /\ ats_score = <<>>
    /\ pc = "parsed"
    /\ request = NoRequest
    /\ response = NoResponse
    /\ calls = NoCalls
    /\ db = NoDb
    /\ locals = NoLocals

FormatSpec == FormatInit /\ [][CalculateAtsScore]_vars

-----------------------------------------------------------------------------

(* What the properties speak of *)

Parsed == pc \in {"parsed", "scored"}
Scored == pc \in {"scored", "rescored"}

\* the stripped non-blank lines of a text, in order
NonBlankLines(t) ==
    LET ls == Split(t, "\n")
    IN  SelectSeq([i \in DOMAIN ls |-> Strip(ls[i])], LAMBDA l : l # "")

\* every keyword of every section, and the lengths the keywords have
AllKeywords ==
    UNION {{section_keywords[i].keywords[j] : j \in 1..Len(section_keywords[i].keywords)} :
              i \in 1..Len(section_keywords)}

KeywordLengths == {Len(k) : k \in AllKeywords}

\* the header test, on a stripped line: a short line that holds some keyword
IsHeaderLine(l) ==
    LET lower == Lower(l)
    IN  /\ Len(l) < HeaderMaxLen
        /\ \E n \in KeywordLengths :
              \E i \in 1..(Len(lower) - n + 1) :
                  SubSeq(lower, i, i + n - 1) \in AllKeywords

HeaderLines(t) == SelectSeq(NonBlankLines(t), IsHeaderLine)
ContentLines(t) == SelectSeq(NonBlankLines(t), LAMBDA l : ~IsHeaderLine(l))

\* the "Email: ..." / "Phone: ..." entries parse_resume derives from a text
SyntheticEntries(t) == ContactEntries(Join(Split(t, "\n"), " "))

\* the entries of all section lists, in the order of the keys, without the
\* first skip entries of personal_info
RECURSIVE EntriesFrom(_, _, _)
EntriesFrom(pd, skip, i) ==
    IF i > Len(SectionKeys) THEN <<>>
    ELSE LET items == Get(pd, SectionKeys[i])
         IN  (IF SectionKeys[i] = "personal_info"
              THEN SubSeq(items, skip + 1, Len(items)) ELSE items)
             \o EntriesFrom(pd, skip, i + 1)

\* every entry of the section lists
StoredEntries(pd) == EntriesFrom(pd, 0, 1)

\* the entries that come from the scan of the lines of t
ScannedEntries(pd, t) == EntriesFrom(pd, Len(SyntheticEntries(t)), 1)

Occurrences(seq, v) == Cardinality({i \in 1..Len(seq) : seq[i] = v})

Range(seq) == {seq[i] : i \in 1..Len(seq)}

\* the two sequences hold the same elements, each as often
SameBag(a, b) ==
    /\ Len(a) = Len(b)
    /\ \A v \in Range(a) \cup Range(b) : Occurrences(a, v) = Occurrences(b, v)

Breakdown(c) == ats_score.scoring_breakdown[c]

-----------------------------------------------------------------------------
(* C1 as stated: the lines stored across all section lists plus the header  *)
(* lines number exactly the non-blank input lines.                          *)
C1_LinesConserved ==
    Parsed => Len(StoredEntries(parsed_data)) + Len(HeaderLines(text))
                 = Len(NonBlankLines(text))

(* C1, amended: the lines stored across all section lists plus the header   *)
(* lines number the non-blank input lines plus the synthetic "Email: ..."   *)
(* and "Phone: ..." entries (one for each pattern that matches the joined   *)
(* text, in front of personal_info); those entries aside, the stored lines  *)
(* are the non-blank non-header lines, each as often as in the input.       *)
C1_LinesConservedUpToContactEntries ==
    Parsed =>
        LET synthetic == SyntheticEntries(text)
        IN  /\ Len(StoredEntries(parsed_data)) + Len(HeaderLines(text))
                  = Len(NonBlankLines(text)) + Len(synthetic)
            /\ SubSeq(Get(parsed_data, "personal_info"), 1, Len(synthetic)) = synthetic
            /\ SameBag(EntriesFrom(parsed_data, Len(synthetic), 1), ContentLines(text))

\* a section visited twice with content each time, and a contact entry
C1_Witness ==
    /\ pc = "parsed"
    /\ SyntheticEntries(text) # <<>>
    /\ \E i, j \in 1..Len(HeaderLines(text)) :
          i < j /\ HeaderKey(HeaderLines(text)[i]) = HeaderKey(HeaderLines(text)[j])
    /\ \E k \in DOMAIN parsed_data : k # "personal_info" /\ Len(parsed_data[k]) >= 2

-----------------------------------------------------------------------------
\* the declared cap of each criterion
DeclaredMax ==
    ("Contact Information" :> 10) @@ ("Education" :> 15) @@ ("Work Experience" :> 25)
    @@ ("Skills" :> 15) @@ ("Projects" :> 10) @@ ("Certifications" :> 8)
    @@ ("Research & Publications" :> 7) @@ ("Formatting & Keywords" :> 10)

RECURSIVE BreakdownSumFrom(_, _)
BreakdownSumFrom(bd, i) ==
    IF i > Len(Criteria) THEN 0 ELSE bd[Criteria[i]].score + BreakdownSumFrom(bd, i + 1)

(* C2: 0 <= score <= 100; every entry of the breakdown has 0 <= score <= max *)
(* with max = 10, 15, 25, 15, 10, 8, 7, 10 in the order of the criteria; and *)
(* score is the sum of the eight entries.                                    *)
C2_ScoreBounds ==
    Scored =>
        /\ ats_score.score >= 0 /\ ats_score.score <= 100
        /\ DOMAIN ats_score.scoring_breakdown = DOMAIN DeclaredMax
        /\ \A c \in DOMAIN DeclaredMax :
              /\ Breakdown(c).score >= 0
              /\ Breakdown(c).score <= Breakdown(c).max
              /\ Breakdown(c).max = DeclaredMax[c]
        /\ ats_score.score = BreakdownSumFrom(ats_score.scoring_breakdown, 1)

\* every sub-score at its cap, with more experience than the cap pays for
C2_Witness ==
    /\ pc = "scored"
    /\ ats_score.score = 100
    /\ Len(Get(parsed_data, "experience")) >= 5
    /\ has_metrics(Get(parsed_data, "experience"))

-----------------------------------------------------------------------------
(* C3 as stated: on the John Doe text parse_resume returns personal_info =  *)
(* [Email, Phone, John Doe], education = [the BTech line], skills =         *)
(* [Python, Go, SQL]; the Skills sub-score is 3 and the Education one 5.    *)
C3_JohnDoeAsStated ==
    (pc = "scored" /\ text = JohnDoeText) =>
        /\ Get(parsed_data, "personal_info")
              = <<"Email: john@example.com", "Phone: 9876543210", "John Doe">>
        /\ Get(parsed_data, "education") = <<"BTech Computer Science, XYZ University">>
        /\ Get(parsed_data, "skills") = <<"Python, Go, SQL">>
        /\ Breakdown("Skills").score = 3
        /\ Breakdown("Education").score = 5

(* C3, amended: on the John Doe text parse_resume returns personal_info =   *)
(* [Email, Phone, John Doe, john@example.com, 9876543210] and skills =      *)
(* [Python, Go, SQL] and no education key (the BTech line contains          *)
(* "university" and is a header); the Skills sub-score is 3 and the         *)
(* Education sub-score 0.                                                   *)
C3_JohnDoeAsParsed ==
    (pc = "scored" /\ text = JohnDoeText) =>
        /\ DOMAIN parsed_data = {"personal_info", "skills"}
        /\ parsed_data["personal_info"]
              = <<"Email: john@example.com", "Phone: 9876543210", "John Doe",
                  "john@example.com", "9876543210">>
        /\ parsed_data["skills"] = <<"Python, Go, SQL">>
        /\ Breakdown("Skills").score = 3
        /\ Breakdown("Education").score = 0

C3_Witness == pc = "scored" /\ text = JohnDoeText /\ ats_score.score = 13

-----------------------------------------------------------------------------
(* C4: for a text with no header line and no email or phone match,          *)
(* parse_resume returns exactly {personal_info: the non-blank lines in      *)
(* order} (the empty map when there is none), the Contact Information       *)
(* sub-score is 0 and the rating is "Needs Improvement".                    *)
C4_NoHeaderNoContact ==
    (pc = "scored" /\ HeaderLines(text) = <<>> /\ SyntheticEntries(text) = <<>>) =>
        /\ parsed_data = (IF NonBlankLines(text) = <<>> THEN <<>>
                          ELSE [k \in {"personal_info"} |-> NonBlankLines(text)])
        /\ Breakdown("Contact Information").score = 0
        /\ ats_score.rating = "Needs Improvement"

-----------------------------------------------------------------------------
\* the format a request declares: by file extension on the upload path, by
\* URL or Content-Type on the saved-resume path
FormatTag(req) ==
    IF req.route = "upload"
    THEN LET name == Lower(req.filename)
         IN  IF EndsWith(name, ".pdf") THEN "pdf"
             ELSE IF EndsWith(name, ".docx") THEN "docx"
             ELSE IF EndsWith(name, ".txt") THEN "plaintext"
             ELSE "other"
    ELSE LET ctype == Lower(req.content_type)
         IN  IF Contains(req.resumeUrl, ".pdf") \/ Contains(ctype, "application/pdf")
             THEN "pdf"
             ELSE IF Contains(req.resumeUrl, ".docx") \/ Contains(ctype, DocxContentType)
             THEN "docx"
             ELSE IF Contains(req.resumeUrl, ".txt") \/ Contains(ctype, "text/plain")
             THEN "plaintext"
             ELSE "other"

\* the request passes the checks that precede extraction
ReachesExtraction(req) ==
    /\ req.authenticated
    /\ IF req.route = "upload"
       THEN req.has_file /\ req.filename # ""
       ELSE validate_drive_link(Strip(req.resumeUrl)) /\ req.download = "200"

(* C5: a request whose document is tagged with a format other than pdf,     *)
(* docx or plain text ends in the unsupported-format error, and neither     *)
(* parse_resume nor calculate_ats_score is invoked for it; on the upload    *)
(* path and on the saved-resume-link path.                                  *)
C5_UnsupportedFormatRejected ==
    (/\ pc = "responded"
     /\ ReachesExtraction(request)
     /\ FormatTag(request) = "other"
     /\ request.document.kind \notin {"pdf", "docx", "txt"}) =>
        /\ response.status = 400
        /\ response.error \in {UnsupportedUpload, UnsupportedSaved}
        /\ calls.parse = 0
        /\ calls.score = 0

-----------------------------------------------------------------------------
(* C6: scoring a section map again with one more experience line never      *)
(* lowers the Work Experience sub-score.                                    *)
C6_ExperienceMonotone ==
    [][pc' = "rescored" =>
          ats_score'.scoring_breakdown["Work Experience"].score
             >= ats_score.scoring_breakdown["Work Experience"].score]_vars

\* a line was added beyond the cap, without lowering the capped sub-score
C6_Witness ==
    /\ pc = "rescored"
    /\ Len(Get(parsed_data, "experience")) >= 6
    /\ Breakdown("Work Experience").score = 25

-----------------------------------------------------------------------------
(* C7 (two runs on equal inputs give equal results) has no formula: parse_resume *)
(* and calculate_ats_score are operators here, and an operator agrees with     *)
(* itself in every model.                                                      *)

-----------------------------------------------------------------------------
(* C8: no entry of the returned map, the synthetic "Email: ..." and         *)
(* "Phone: ..." entries aside, is a line that satisfies the header test.    *)
C8_HeadersNeverStored ==
    Parsed =>
        LET scanned == ScannedEntries(parsed_data, text)
        IN  \A i \in 1..Len(scanned) : ~IsHeaderLine(scanned[i])

\* a header opened a section that holds content
C8_Witness ==
    /\ pc = "parsed"
    /\ \E i \in 1..Len(HeaderLines(text)) :
          LET k == HeaderKey(HeaderLines(text)[i])
          IN  k # "personal_info" /\ k \in DOMAIN parsed_data

-----------------------------------------------------------------------------
(* C9: every key of the returned map is one of the thirteen section keys    *)
(* and maps to a non-empty list.                                            *)
C9_KeysKnownAndNonEmpty ==
    Parsed =>
        /\ DOMAIN parsed_data \subseteq KeySet
        /\ \A k \in DOMAIN parsed_data : parsed_data[k] # <<>>

\* a header opened a section that stayed empty and is absent from the map
C9_Witness ==
    /\ pc = "parsed"
    /\ \E i \in 1..Len(HeaderLines(text)) :
          HeaderKey(HeaderLines(text)[i]) \notin DOMAIN parsed_data
    /\ parsed_data # <<>>

-----------------------------------------------------------------------------
\* the color tied to each rating
ColorOf ==
    ("Excellent" :> "green") @@ ("Very Good" :> "blue") @@ ("Good" :> "yellow")
    @@ ("Fair" :> "orange") @@ ("Needs Improvement" :> "red")

(* C10: the rating is Excellent for a percentage >= 90, Very Good for >= 75, *)
(* Good for >= 60, Fair for >= 40 and Needs Improvement below; the color is  *)
(* green, blue, yellow, orange, red for these ratings.                       *)
C10_RatingByPercentage ==
    Scored =>
        /\ ats_score.rating =
              (IF ats_score.percentage >= 900 THEN "Excellent"
               ELSE IF ats_score.percentage >= 750 THEN "Very Good"
               ELSE IF ats_score.percentage >= 600 THEN "Good"
               ELSE IF ats_score.percentage >= 400 THEN "Fair"
               ELSE "Needs Improvement")
        /\ ats_score.rating_color = ColorOf[ats_score.rating]

\* a report whose percentage is exactly a threshold
C10_Witness ==
    /\ pc = "scored"
    /\ ats_score.percentage \in {900, 750, 600, 400}
    /\ ats_score.percentage = 10 * ats_score.score

-----------------------------------------------------------------------------
\* the criteria with a recommendation, in order, each with the score below
\* which its message is due
RecommendationRules ==
    << [criterion |-> "Contact Information", below |-> 10,
        message |-> "Add complete contact information (email and phone)"],
       [criterion |-> "Education", below |-> 10,
        message |-> "Add or expand your education section"],
       [criterion |-> "Work Experience", below |-> 15,
        message |-> "Add more work experience details with quantifiable achievements"],
       [criterion |-> "Skills", below |-> 10,
        message |-> "Expand your skills section with relevant technical and soft skills"],
       [criterion |-> "Projects", below |-> 5,
        message |-> "Include relevant projects to showcase your abilities"],
       [criterion |-> "Certifications", below |-> 4,
        message |-> "Add professional certifications if available"],
       [criterion |-> "Formatting & Keywords", below |-> 7,
        message |-> "Use more action verbs and improve resume structure"] >>

PositiveMessage == "Your resume looks great! Keep it updated."

\* the messages of the rules a breakdown breaches, from rule i on
RECURSIVE DueFrom(_, _)
DueFrom(bd, i) ==
    IF i > Len(RecommendationRules) THEN <<>>
    ELSE LET r == RecommendationRules[i]
         IN  (IF bd[r.criterion].score < r.below THEN <<r.message>> ELSE <<>>)
             \o DueFrom(bd, i + 1)

(* C11: the recommendations of a report are exactly the messages of the      *)
(* criteria whose sub-score is below its threshold (contact 10, education    *)
(* 10, experience 15, skills 10, projects 5, certifications 4, formatting    *)
(* 7), in that order and whatever the rating; they are the single positive   *)
(* message exactly when no threshold is breached, and never empty.           *)
C11_RecommendationsByThreshold ==
    Scored =>
        LET due == DueFrom(ats_score.scoring_breakdown, 1)
        IN  /\ ats_score.recommendations # <<>>
            /\ due # <<>> => ats_score.recommendations = due
            /\ due = <<>> <=> ats_score.recommendations = <<PositiveMessage>>

\* a report below the best rating with no threshold breached, and so the
\* positive message alone
C11_Witness ==
    /\ pc = "scored"
    /\ DueFrom(ats_score.scoring_breakdown, 1) = <<>>
    /\ ats_score.recommendations = <<PositiveMessage>>
    /\ ats_score.rating # "Excellent"

-----------------------------------------------------------------------------
\* the words by which a feedback line tells the criterion it speaks of
FeedbackWords ==
    ("Contact Information" :> {"email address", "phone number"})
    @@ ("Education" :> {"education section"})
    @@ ("Work Experience" :> {"work experience section", "quantifiable achievements"})
    @@ ("Skills" :> {"skills section"})
    @@ ("Projects" :> {"projects section"})
    @@ ("Certifications" :> {"certifications"})
    @@ ("Research & Publications" :> {"research/publications"})
    @@ ("Formatting & Keywords" :> {"well-structured", "action verbs"})

\* the feedback line speaks of criterion number i
SpeaksOf(line, i) == \E w \in FeedbackWords[Criteria[i]] : Contains(Lower(line), w)

(* C12: the feedback of every report holds at least one line for each of the *)
(* eight criteria (positive when the signal is satisfied, negative or a      *)
(* warning when not), and the lines follow the order of the criteria.        *)
C12_EveryCriterionHasFeedback ==
    Scored =>
        LET fb == ats_score.feedback
        IN  /\ \A i \in 1..Len(Criteria) : \E n \in 1..Len(fb) : SpeaksOf(fb[n], i)
            /\ \A m, n \in 1..Len(fb) : \A i, j \in 1..Len(Criteria) :
                   (m < n /\ SpeaksOf(fb[m], i) /\ SpeaksOf(fb[n], j)) => i <= j

-----------------------------------------------------------------------------
\* what the extraction of the request's document yields, by its format tag
Extraction(req) ==
    IF FormatTag(req) = "pdf" THEN extract_text_from_pdf(req.document)
    ELSE IF FormatTag(req) = "docx" THEN extract_text_from_docx(req.document)
    ELSE DecodeIgnore(req.document)

\* the request gets as far as extraction
Extracts(req) ==
    /\ ReachesExtraction(req)
    /\ req.route = "upload" => FormatTag(req) # "other"

(* C13: when extraction yields an empty or whitespace-only text, the upload  *)
(* entry point and the saved-resume-link entry point still run the parser    *)
(* and the scorer and answer with a low-scoring report, not with an error.   *)
C13_EmptyTextIsScored ==
    (/\ pc = "responded"
     /\ Extracts(request)
     /\ Extraction(request).ok
     /\ Strip(Extraction(request).text) = "") =>
        /\ response.status = 200
        /\ calls = OneCallEach
        /\ response.ats_score = ats_score
        /\ ats_score.rating = "Needs Improvement"

-----------------------------------------------------------------------------
(* C14: when the request's document is structurally corrupt and extraction   *)
(* raises, the upload path and the saved-resume-link path answer with an     *)
(* error and return no report; the failure never becomes a success.          *)
C14_CorruptDocumentIsAnError ==
    (/\ pc = "responded"
     /\ Extracts(request)
     /\ request.document.corrupt
     /\ FormatTag(request) = request.document.kind) =>
        /\ response.status >= 400
        /\ "error" \in DOMAIN response
        /\ "ats_score" \notin DOMAIN response
        /\ "success" \notin DOMAIN response
        /\ ats_score = <<>>
        /\ calls = NoCalls

\* a corrupt PDF behind a saved resume link, answered with an error
C14_Witness ==
    /\ pc = "responded"
    /\ request.route = "saved"
    /\ Extracts(request)
    /\ request.document.corrupt
    /\ FormatTag(request) = "pdf"
    /\ request.document.kind = "pdf"
    /\ response.status = 500

-----------------------------------------------------------------------------
(* C15: under every interleaving of two calls, each call returns the section *)
(* map and the report it returns when it runs alone on its own text.         *)
C15_CallsDoNotInteract ==
    \A w \in Workers :
        /\ pc[w] \in {"parsed", "scored"} =>
              parsed_data[Frame(w)].result = parse_resume(text[w])
        /\ pc[w] = "scored" =>
              ats_score[w] = calculate_ats_score(parse_resume(text[w]), text[w])

\* two calls for different resumes that ran at the same time, both returned
C15_Witness ==
    /\ \A w \in Workers : pc[w] = "scored"
    /\ calls.overlap
    /\ text["a"] # text["b"]
    /\ ats_score["a"] # ats_score["b"]
    /\ parsed_data["a"].result # parsed_data["b"].result

-----------------------------------------------------------------------------
\* the keys, by their position in the table, that have a keyword in the line
KeysIn(line) ==
    LET lower == Lower(line)
    IN  {i \in 1..Len(section_keywords) :
            \E j \in 1..Len(section_keywords[i].keywords) :
                Contains(lower, section_keywords[i].keywords[j])}

\* worker w runs one iteration of the scan loop in this step
ScansLine(w) ==
    /\ pc[w] = "scanning"
    /\ pc'[w] = "scanning"
    /\ parsed_data'[w] # parsed_data[w]

(* C16: the scan takes a non-blank stripped line for a header exactly when   *)
(* its lower-cased form contains a keyword of some key and the line is       *)
(* shorter than 50 characters; the current section becomes the first key in  *)
(* the order of the table that has a keyword in the line; a line of 50 or    *)
(* more characters is never a header.                                        *)
C16_HeaderClassification ==
    [][\A w \in Workers :
          ScansLine(w) =>
              LET f == parsed_data[w]
                  line == Strip(f.lines[f.i])
                  before == f.scan
                  after == parsed_data'[w].scan
                  opened == /\ after.current_section # NoSection
                            /\ after.current_content = <<>>
              IN  line # "" =>
                    /\ opened <=> (KeysIn(line) # {} /\ Len(line) < 50)
                    /\ opened =>
                          after.current_section = section_keywords[Min(KeysIn(line))].key
                    /\ ~opened => after.current_section = before.current_section
                    /\ Len(line) >= 50 => ~opened]_vars

\* a line with keywords of two keys has just opened the section of the first
C16_Witness ==
    \E w \in Workers :
        /\ pc[w] = "scanning"
        /\ parsed_data[w].i > 1
        /\ LET f == parsed_data[w]
               line == Strip(f.lines[f.i - 1])
           IN  /\ Cardinality(KeysIn(line)) > 1
               /\ Len(line) < 50
               /\ f.scan.current_section = section_keywords[Min(KeysIn(line))].key
               /\ f.scan.current_content = <<>>

-----------------------------------------------------------------------------
\* the section lists with the buffer appended to the list of the current section
Appended(scan) ==
    [k \in DOMAIN scan.parsed |->
        IF k = scan.current_section
        THEN scan.parsed[k] \o scan.current_content ELSE scan.parsed[k]]

(* C17: on a header match the scan appends the buffered content to the list  *)
(* of the section that was current, leaves every other list alone and resets *)
(* the buffer; after the scan the remaining buffer is appended to the list   *)
(* of the last section; so a section whose header occurs several times holds *)
(* the content of all its occurrences, in input order.                       *)
C17_FlushAppends ==
    [][\A w \in Workers :
          LET f == parsed_data[w]
              before == f.scan
              after == parsed_data'[w].scan
          IN  /\ (/\ ScansLine(w)
                  /\ Strip(f.lines[f.i]) # ""
                  /\ after.current_section # NoSection
                  /\ after.current_content = <<>>) => after.parsed = Appended(before)
              /\ (pc[w] = "scanning" /\ pc'[w] = "parsed") =>
                    \A k \in KeySet :
                        Get(parsed_data'[w].result, k) = Appended(before)[k]]_vars

\* a section whose header occurs twice holds the lines of both occurrences
C17_Witness ==
    \E w \in Workers :
        /\ pc[w] = "parsed"
        /\ text[w] = "Skills\nPython\nExperience\nAcme 2020\nSkills\nGo, SQL"
        /\ parsed_data[w].result["experience"] = <<"Acme 2020">>
        /\ parsed_data[w].result["skills"] = <<"Python", "Go, SQL">>

-----------------------------------------------------------------------------
\* for each non-blank line of t that is no header, the section opened by the
\* nearest preceding header, personal_info for the lines before the first
\* header; NoSection for a header
Owners(t) ==
    LET ls == NonBlankLines(t)
        header == [n \in 1..Len(ls) |-> IsHeaderLine(ls[n])] \o <<>>
        opens == [n \in 1..Len(ls) |->
                    IF header[n] THEN section_keywords[Min(KeysIn(ls[n]))].key
                    ELSE NoSection] \o <<>>
    IN  [n \in 1..Len(ls) |->
            IF header[n] THEN NoSection
            ELSE LET above == {m \in 1..(n - 1) : header[m]}
                 IN  IF above = {} THEN "personal_info"
                     ELSE opens[CHOOSE m \in above : \A o \in above : o <= m]] \o <<>>

\* the lines among ls that owners gives to section k, in order
LinesOwned(ls, owners, k) ==
    LET idx == SelectSeq([n \in 1..Len(ls) |-> n], LAMBDA n : owners[n] = k)
    IN  [j \in 1..Len(idx) |-> ls[idx[j]]]

\* the non-header lines of t whose nearest preceding header opens section k,
\* in input order
LinesUnder(t, k) == LinesOwned(NonBlankLines(t), Owners(t), k)

(* C18: every non-blank non-header line before the first header is stored in *)
(* personal_info, and every non-blank non-header line after a header is      *)
(* stored in the section of the nearest preceding header and nowhere else.   *)
C18_LinesGoToNearestHeader ==
    Parsed =>
        LET ls == NonBlankLines(text)
            owners == Owners(text)
        IN  \A k \in KeySet :
                Get(parsed_data, k) =
                    (IF k = "personal_info" THEN SyntheticEntries(text) ELSE <<>>)
                    \o LinesOwned(ls, owners, k)

\* a text with a line before the first header and lines under two sections
C18_Witness ==
    /\ pc = "parsed"
    /\ LinesUnder(text, "personal_info") # <<>>
    /\ Cardinality({k \in KeySet : LinesUnder(text, k) # <<>>}) >= 3
    /\ \A k \in KeySet \ {"personal_info"} : Get(parsed_data, k) = LinesUnder(text, k)

-----------------------------------------------------------------------------
\* the lines of a text joined by blanks, the text the patterns are matched on
Joined(t) == Join(Split(t, "\n"), " ")

(* C19: if the joined text has an e-mail match, "Email: <first match>" is    *)
(* the first entry of personal_info; if it has a phone match, "Phone: <first *)
(* match>" follows it, or is first when there is no e-mail; the two entries  *)
(* precede every scanned line of personal_info, only the first match of each *)
(* pattern is used, and at most one entry of each kind is added.             *)
C19_ContactEntriesFirst ==
    Parsed =>
        LET emails == FindFirst(email_pattern, Joined(text))
            phones == FindFirst(phone_pattern, Joined(text))
            info == Get(parsed_data, "personal_info")
            at == IF emails # <<>> THEN 2 ELSE 1
            scanned == LinesUnder(text, "personal_info")
            added == Len(info) - Len(scanned)
        IN  /\ emails # <<>> => Len(info) >= 1 /\ info[1] = "Email: " \o emails[1]
            /\ phones # <<>> => Len(info) >= at /\ info[at] = "Phone: " \o phones[1]
            /\ added = (IF emails # <<>> THEN 1 ELSE 0) + (IF phones # <<>> THEN 1 ELSE 0)
            /\ SubSeq(info, added + 1, Len(info)) = scanned

\* a text with two addresses and two numbers: the first of each is entered,
\* in front of the scanned lines
C19_Witness ==
    /\ pc = "parsed"
    /\ Contains(text, "ann@a.io or bob@b.io")
    /\ Contains(text, "5551234 or 7778888")
    /\ SubSeq(parsed_data["personal_info"], 1, 3)
          = <<"Email: ann@a.io", "Phone: 5551234", "Ann">>
    /\ Occurrences(parsed_data["personal_info"], "Email: bob@b.io") = 0
    /\ Occurrences(parsed_data["personal_info"], "Phone: 7778888") = 0

-----------------------------------------------------------------------------
\* the number of digits in a string
DigitCount(s) == Cardinality({i \in 1..Len(s) : Char(s, i) \in DigitChars})

\* the string has k digits in a row
HasDigitRun(s, k) ==
    \E i \in 1..(Len(s) - k + 1) : \A j \in i..(i + k - 1) : Char(s, j) \in DigitChars

\* the "Phone: ..." entries of personal_info
PhoneEntries(pd) ==
    SelectSeq(Get(pd, "personal_info"), LAMBDA e : StartsWith(e, "Phone: "))

(* C20 as stated: the phone pattern only matches digit groups with at least  *)
(* 7 digits in total, so a Phone entry holds 7 digits or more and a text     *)
(* with fewer than 7 digits (and so with no run of 7) gets no Phone entry.   *)
C20_PhoneNeedsSevenDigits ==
    Parsed =>
        /\ \A n \in 1..Len(PhoneEntries(parsed_data)) :
               DigitCount(PhoneEntries(parsed_data)[n]) >= 7
        /\ DigitCount(text) < 7 => PhoneEntries(parsed_data) = <<>>

(* C20, amended: the phone pattern matches four digit groups of one digit or *)
(* more each, so a Phone entry holds 4 digits or more, a text with fewer     *)
(* than 4 digits gets no Phone entry, and a text with 4 digits in a row      *)
(* gets one.                                                                 *)
C20_PhoneNeedsFourDigits ==
    Parsed =>
        /\ \A n \in 1..Len(PhoneEntries(parsed_data)) :
               DigitCount(PhoneEntries(parsed_data)[n]) >= 4
        /\ DigitCount(text) < 4 => PhoneEntries(parsed_data) = <<>>
        /\ HasDigitRun(text, 4) => Len(PhoneEntries(parsed_data)) = 1

\* a year taken for a phone number: a Phone entry of four digits
C20_Witness ==
    /\ pc = "parsed"
    /\ ~HasDigitRun(text, 5)
    /\ Len(PhoneEntries(parsed_data)) = 1
    /\ DigitCount(PhoneEntries(parsed_data)[1]) = 4

-----------------------------------------------------------------------------
\* some line of items holds a digit
HoldsDigit(items) == \E i \in 1..Len(items) : DigitCount(items[i]) > 0

\* the feedback line of the metric bonus
MetricLine == "[+] Quantifiable achievements found (numbers/metrics)"

(* C21: the Work Experience sub-score is min(25, 5 * experience lines) plus *)
(* 5 when some experience line holds a digit, capped at 25; it is 0 without *)
(* an experience line, and the bonus is granted with an experience line     *)
(* only.                                                                    *)
C21_WorkExperienceScore ==
    Scored =>
        LET items == Get(parsed_data, "experience")
            bonus == IF HoldsDigit(items) THEN 5 ELSE 0
        IN  /\ Breakdown("Work Experience").max = 25
            /\ Breakdown("Work Experience").score =
                  (IF items = <<>> THEN 0
                   ELSE MinInt(25, MinInt(25, 5 * Len(items)) + bonus))
            /\ (MetricLine \in Range(ats_score.feedback))
                  = (items # <<>> /\ HoldsDigit(items))

\* two experience lines, one of them with a number: 10 for the lines, 5 for the number
C21_Witness ==
    /\ pc = "scored"
    /\ Len(Get(parsed_data, "experience")) = 2
    /\ HoldsDigit(Get(parsed_data, "experience"))
    /\ Breakdown("Work Experience").score = 15
    /\ MetricLine \in Range(ats_score.feedback)

-----------------------------------------------------------------------------
\* the comma-separated tokens of the first n lines of items: one more than
\* the commas of each line
RECURSIVE TokensIn(_, _)
TokensIn(items, n) ==
    IF n = 0 THEN 0
    ELSE TokensIn(items, n - 1)
         + Cardinality({i \in 1..Len(items[n]) : Char(items[n], i) = ","}) + 1

\* the table of the sub-scores that count lines: section, points a line, cap
CountTable ==
    ("Education" :> [key |-> "education", each |-> 5, cap |-> 15])
    @@ ("Projects" :> [key |-> "projects", each |-> 3, cap |-> 10])
    @@ ("Certifications" :> [key |-> "certifications", each |-> 2, cap |-> 8])
    @@ ("Research & Publications" :> [key |-> "research", each |-> 3, cap |-> 7])

(* C22: for every section map, Education = min(15, 5 * lines), Projects =   *)
(* min(10, 3 * lines), Certifications = min(8, 2 * lines), Research &       *)
(* Publications = min(7, 3 * lines) and Skills = min(15, comma-separated    *)
(* tokens over all skills lines); each is 0 when its section is absent.     *)
C22_CountBasedScores ==
    Scored =>
        /\ \A c \in DOMAIN CountTable :
              LET row == CountTable[c]
                  lines == Len(Get(parsed_data, row.key))
              IN  /\ Breakdown(c).score = MinInt(row.cap, row.each * lines)
                  /\ Breakdown(c).max = row.cap
                  /\ row.key \notin DOMAIN parsed_data => Breakdown(c).score = 0
        /\ LET skills == Get(parsed_data, "skills")
           IN  /\ Breakdown("Skills").score = MinInt(15, TokensIn(skills, Len(skills)))
               /\ Breakdown("Skills").max = 15
               /\ "skills" \notin DOMAIN parsed_data => Breakdown("Skills").score = 0

\* two skills lines of four tokens score 8, under the cap; five certificates
\* score 8, at the cap; the sections left out score 0
C22_Witness ==
    /\ pc = "scored"
    /\ Len(Get(parsed_data, "skills")) = 2
    /\ Breakdown("Skills").score = 8
    /\ Len(Get(parsed_data, "certifications")) = 5
    /\ Breakdown("Certifications").score = 8
    /\ "education" \notin DOMAIN parsed_data
    /\ Breakdown("Education").score = 0

-----------------------------------------------------------------------------
\* how many of the fixed action verbs occur in the lower-cased text
VerbsIn(t) ==
    Cardinality({v \in Range(action_verbs) : Contains(Lower(t), v)})

\* how many keys of the section map hold at least one line
PopulatedKeys(pd) == Cardinality({k \in DOMAIN pd : Len(pd[k]) > 0})

(* C23: the Formatting & Keywords sub-score is 5 if the section map has at  *)
(* least 4 non-empty keys, else 0, plus 5 if at least 5 of the 12 fixed     *)
(* action verbs occur in the lower-cased full text, else plus 3 if at least *)
(* 2 occur, else plus 0; so a text with 6 action verbs and 4 or more        *)
(* populated sections scores 10.                                            *)
C23_FormattingScore ==
    /\ Cardinality(Range(action_verbs)) = 12
    /\ Scored =>
          LET entry == Breakdown("Formatting & Keywords")
              verbs == VerbsIn(text)
          IN  /\ entry.max = 10
              /\ entry.score =
                    (IF PopulatedKeys(parsed_data) >= 4 THEN 5 ELSE 0)
                    + (IF verbs >= 5 THEN 5 ELSE IF verbs >= 2 THEN 3 ELSE 0)
              /\ (verbs = 6 /\ PopulatedKeys(parsed_data) >= 4) => entry.score = 10

\* six action verbs and four populated sections, scored 10
C23_Witness ==
    /\ pc = "scored"
    /\ VerbsIn(text) = 6
    /\ PopulatedKeys(parsed_data) = 4
    /\ Breakdown("Formatting & Keywords").score = 10

-----------------------------------------------------------------------------
\* an e-mail address trimmed and in lower case
NormalizedEmail(e) == Strip(Lower(e))

\* no two users of the collection have the same normalized e-mail
EmailsDistinct(users) ==
    \A u, v \in users : NormalizedEmail(u.email) = NormalizedEmail(v.email) => u = v

\* this step answers the request of client c
Answers(c) ==
    /\ pc'[c] = "idle"
    /\ <<pc[c], request[c], response[c]>> # <<pc'[c], request'[c], response'[c]>>

(* C29: after any sequence of signup requests, concurrent ones included, no *)
(* two stored users have the same normalized (trimmed, lower-cased) e-mail, *)
(* and a signup whose e-mail is already stored creates no user and returns  *)
(* an error.                                                                *)
C29_EmailsStayDistinct ==
    [][/\ EmailsDistinct(db'.users)
       /\ \A c \in Clients :
             (/\ Answers(c)
              /\ request'[c].route = "signup"
              /\ \E u \in db.users :
                    NormalizedEmail(u.email) = NormalizedEmail(request'[c].data.email))
             => /\ db'.users = db.users
                /\ response'[c].status \in {400, 500}]_vars

\* two signups for one address passed find_one before either inserted: the
\* index refused the second insert, and one user is stored
C29_Witness ==
    \E c \in Clients :
        /\ pc[c] = "idle"
        /\ request[c].route = "signup"
        /\ response[c].status = 500
        /\ Cardinality({u \in db.users :
                          u.email = NormalizedEmail(request[c].data.email)}) = 1
        /\ \E o \in Clients \ {c} :
              /\ request[o].route = "signup"
              /\ response[o].status = 201
              /\ request[o].data.email # request[c].data.email
              /\ NormalizedEmail(request[o].data.email)
                    = NormalizedEmail(request[c].data.email)

-----------------------------------------------------------------------------
(* Applications and opportunities *)

\* the applications of one student to one opportunity
SameTriple(a, b) ==
    /\ a.studentId = b.studentId
    /\ a.opportunityId = b.opportunityId
    /\ a.opportunityType = b.opportunityType

\* C24: after any interleaving of submit_student_application requests the
\* applications hold at most one application per (studentId, opportunityId,
\* opportunityType).
C24_OneApplicationPerTriple ==
    \A a, b \in db.student_applications : SameTriple(a, b) => a = b

\* a student's handler writes to the applications in this step
StudentWrites(c) ==
    /\ pc[c] \in {"update_student_application", "delete_student_application"}
    /\ pc'[c] = "idle"

\* C25: update_student_application and delete_student_application never
\* modify or delete an application whose status is not "pending", also when
\* an admin's status change comes between the student's request and its write.
C25_StudentsChangeOnlyPending ==
    [][(\E c \in Clients : StudentWrites(c)) =>
          \A a \in db.student_applications :
              a.status # "pending" => a \in db'.student_applications]_vars

\* the opportunities an application refers to
OpportunityOf(a, store) ==
    {o \in store[CollectionOf(a.opportunityType)] : o._id = a.opportunityId}

\* C26: every stored application refers to an opportunity that still exists
\* in the collection of its type.
C26_ApplicationsReferToOpportunities ==
    \A a \in db.student_applications : OpportunityOf(a, db) # {}

\* the applications a step inserts
Inserted ==
    {a \in db'.student_applications :
        \A b \in db.student_applications : b._id # a._id}

\* C27: submit_student_application inserts an application only if the
\* opportunity's status is "active" at that moment.
C27_AppliedOnlyToActive ==
    [][\A a \in Inserted :
          \E o \in OpportunityOf(a, db) : o.status = "active"]_vars

\* C28: the resumeLink and submissionLink of every stored application
\* satisfy validate_drive_link.
C28_StoredLinksAreDriveLinks ==
    \A a \in db.student_applications :
        validate_drive_link(a.resumeLink) /\ validate_drive_link(a.submissionLink)

AdminRoutes ==
    {"create_admin_project", "create_admin_research", "create_admin_patent",
     "update_admin_project", "update_admin_research", "update_admin_patent",
     "delete_admin_project", "delete_admin_research", "delete_admin_patent",
     "update_application_status"}

\* client c is answered in this step on a route for admins, as an admin or not
AdminRouteAnswered(c, asAdmin) ==
    /\ Answers(c)
    /\ request'[c].route \in AdminRoutes
    /\ asAdmin <=> \E u \in db.users :
                      u._id = request'[c].caller /\ u.userType = "admin"

\* the step changes an opportunity collection or the status of an application
ChangesAdminData ==
    \/ \E t \in OpportunityTypes : db'[CollectionOf(t)] # db[CollectionOf(t)]
    \/ \E a \in db.student_applications : \E b \in db'.student_applications :
          a._id = b._id /\ a.status # b.status

\* C30: an opportunity create, update or delete request or an application
\* status update by an unauthenticated caller, a student or a placementCell
\* user is answered 401 or 403 and leaves every collection unchanged; the
\* opportunity collections and the status of an application change only in
\* the answer to such a request of an admin.
C30_OnlyAdminsChangeAdminData ==
    [][/\ \A c \in Clients :
             AdminRouteAnswered(c, FALSE) =>
                 response'[c].status \in {401, 403} /\ db' = db
       /\ ChangesAdminData => \E c \in Clients : AdminRouteAnswered(c, TRUE)
       /\ db' # db => \E c \in Clients : Answers(c)]_vars

\* a placementCell user was answered 403 and a caller without a token 401,
\* both on routes for admins, while an opportunity and an application are stored
C30_Witness ==
    /\ db.student_applications # {}
    /\ \E t \in OpportunityTypes : db[CollectionOf(t)] # {}
    /\ \E c, d \in Clients :
          /\ pc[c] = "idle" /\ pc[d] = "idle"
          /\ request[c].route \in AdminRoutes /\ request[c].caller = "cell"
          /\ response[c].status = 403
          /\ request[d].route = "update_application_status"
          /\ request[d].caller = NoToken
          /\ response[d].status = 401

=============================================================================
